---- MODULE Spec2Model ----
(***************************************************************************)
(* Model of patterns/testing/test_quality_validator.py: the per-file test  *)
(* quality analyzer (TestAnalyzer) and the project pass                    *)
(* (TestQualityValidator.analyze_project).                                 *)
(*                                                                         *)
(* Strings are sequences of one-character strings, so that startswith,     *)
(* `in`, lower(), strip() and count() are computed, not assumed.           *)
(* Floats are exact rationals [num, den] in lowest terms.                  *)
(***************************************************************************)
EXTENDS Integers, Sequences, FiniteSets, TLC

\* Bounds of the model.
MaxNodes == 2
MaxFiles == 2
MaxIssues == 3

-----------------------------------------------------------------------------
(* Rational arithmetic standing for Python floats. *)

RECURSIVE GCD(_, _)
GCD(a, b) == IF b = 0 THEN a ELSE GCD(b, a % b)

Abs(x) == IF x < 0 THEN -x ELSE x

Rat(n, d) ==
  LET g == GCD(Abs(n), d)
  IN  [num |-> IF n < 0 THEN -(Abs(n) \div g) ELSE n \div g, den |-> d \div g]

RInt(n) == [num |-> n, den |-> 1]
RAdd(a, b) == Rat(a.num * b.den + b.num * a.den, a.den * b.den)
RMul(a, b) == Rat(a.num * b.num, a.den * b.den)
RDivInt(a, n) == Rat(a.num, a.den * n)
RLt(a, b) == a.num * b.den < b.num * a.den
RLe(a, b) == a.num * b.den <= b.num * a.den

\* Python's min(a, b): b only when b < a.
RMin(a, b) == IF RLt(b, a) THEN b ELSE a

\* (k / n) * 100 with n > 0.
Percent(k, n) == RMul(Rat(k, n), RInt(100))

\* f"{x:.1f}": the value in tenths, rounded to nearest.
Fmt1(x) == (2 * 10 * x.num + x.den) \div (2 * x.den)

-----------------------------------------------------------------------------
(* String operations on sequences of characters. *)

UpperLetters == <<"A", "B", "C", "D", "E", "F", "G", "H", "I", "J", "K", "L", "M", "N", "O", "P", "Q", "R", "S", "T", "U", "V", "W", "X", "Y", "Z">>
LowerLetters == <<"a", "b", "c", "d", "e", "f", "g", "h", "i", "j", "k", "l", "m", "n", "o", "p", "q", "r", "s", "t", "u", "v", "w", "x", "y", "z">>

LowerTable ==
  [c \in {UpperLetters[i] : i \in 1..Len(UpperLetters)} |->
     LowerLetters[CHOOSE i \in 1..Len(UpperLetters) : UpperLetters[i] = c]]

LowerChar(c) == IF c \in DOMAIN LowerTable THEN LowerTable[c] ELSE c

\* str.lower()
Lower(s) == [i \in 1..Len(s) |-> LowerChar(s[i])]

\* str.startswith(p)
StartsWith(s, p) == Len(s) >= Len(p) /\ SubSeq(s, 1, Len(p)) = p

\* str.endswith(p)
EndsWith(s, p) == Len(s) >= Len(p) /\ SubSeq(s, Len(s) - Len(p) + 1, Len(s)) = p

IsAt(s, p, i) ==
  /\ i + Len(p) - 1 <= Len(s)
  /\ SubSeq(s, i, i + Len(p) - 1) = p

\* p in s
In(p, s) == \E i \in 1..(Len(s) - Len(p) + 1) : IsAt(s, p, i)

\* s.count(p): non-overlapping occurrences, left to right.
RECURSIVE CountFrom(_, _, _)
CountFrom(s, p, i) ==
  LET found == {j \in i..(Len(s) - Len(p) + 1) : IsAt(s, p, j)}
      first == CHOOSE j \in found : \A k \in found : j <= k
  IN  IF found = {} THEN 0 ELSE 1 + CountFrom(s, p, first + Len(p))

Count(s, p) == CountFrom(s, p, 1)

\* str.strip() for blanks.
RECURSIVE LStrip(_)
LStrip(s) == IF s # <<>> /\ Head(s) = " " THEN LStrip(Tail(s)) ELSE s

RECURSIVE RStrip(_)
RStrip(s) ==
  IF s # <<>> /\ s[Len(s)] = " " THEN RStrip(SubSeq(s, 1, Len(s) - 1)) ELSE s

Strip(s) == RStrip(LStrip(s))

\* " ".join(parts)
RECURSIVE Join(_)
Join(parts) ==
  IF parts = <<>> THEN <<>>
  ELSE IF Len(parts) = 1 THEN parts[1]
  ELSE parts[1] \o <<" ">> \o Join(Tail(parts))

RECURSIVE SumSeq(_)
SumSeq(s) == IF s = <<>> THEN 0 ELSE Head(s) + SumSeq(Tail(s))

-----------------------------------------------------------------------------
(* The parsed tree of a test file.                                         *)
(* A tree is the pre-order sequence of its def/class nodes; node i is      *)
(* [kind, name, parent, doc, body]: parent is the index of the enclosing   *)
(* def/class (0: the module), doc the docstring (<<>>: none), body the     *)
(* node's own statements, each [node, src], one per line.  Own statements  *)
(* precede nested definitions.                                             *)

RECURSIVE Depth(_, _)
Depth(t, i) == IF t[i].parent = 0 THEN 1 ELSE 1 + Depth(t, t[i].parent)

RECURSIVE IsAncestor(_, _, _)
IsAncestor(t, a, i) ==
  /\ t[i].parent # 0
  /\ (t[i].parent = a \/ IsAncestor(t, a, t[i].parent))

\* The node itself and everything nested in it, in source order.
Subtree(t, i) ==
  SelectSeq([j \in 1..Len(t) |-> j], LAMBDA j : j = i \/ IsAncestor(t, i, j))

DocLines(n) == IF n.doc = <<>> THEN 0 ELSE 1
OwnLines(n) == 1 + DocLines(n) + Len(n.body)

\* node.lineno
Lineno(t, i) == 1 + SumSeq([j \in 1..(i - 1) |-> OwnLines(t[j])])

\* node.end_lineno
EndLineno(t, i) ==
  Lineno(t, i) + SumSeq([k \in 1..Len(Subtree(t, i)) |-> OwnLines(t[Subtree(t, i)[k]])]) - 1

\* The attributes an ast.FunctionDef node carries.
NodeAttributes ==
  {"name", "args", "body", "decorator_list", "returns", "type_comment",
   "lineno", "col_offset", "end_lineno", "end_col_offset"}

\* hasattr(func, attr)
HasAttr(attr) == attr \in NodeAttributes

\* The text of the def or class line; a node that records the text of its
\* parameter list has it written out.
Header(n) ==
  LET args == IF "args" \in DOMAIN n THEN n.args ELSE <<>>
  IN  CASE n.kind = "FunctionDef" -> <<"d", "e", "f", " ">> \o n.name \o args
        [] n.kind = "AsyncFunctionDef" -> <<"a", "s", "y", "n", "c", " ", "d", "e", "f", " ">> \o n.name \o args
        [] OTHER -> <<"c", "l", "a", "s", "s", " ">> \o n.name

OwnText(n) ==
  Join(<<Header(n)>> \o (IF n.doc = <<>> THEN <<>> ELSE <<n.doc>>)
       \o [k \in 1..Len(n.body) |-> n.body[k].src])

\* ast.get_source_segment(source, func) or ""
Segment(t, i) == Join([k \in 1..Len(Subtree(t, i)) |-> OwnText(t[Subtree(t, i)[k]])])

\* ast.walk(tree): breadth first, so by depth and then by source order.
RECURSIVE WalkFrom(_, _)
WalkFrom(t, d) ==
  IF d > Len(t) THEN <<>>
  ELSE SelectSeq([j \in 1..Len(t) |-> j], LAMBDA j : Depth(t, j) = d) \o WalkFrom(t, d + 1)

Walk(t) == WalkFrom(t, 1)

\* For contrast: only the module's own functions (tree.body instead of ast.walk).
Mut_FunctionDefNodes(t) ==
  SelectSeq(Walk(t), LAMBDA i : t[i].kind = "FunctionDef" /\ t[i].parent = 0)

\* [node for node in ast.walk(tree) if isinstance(node, ast.FunctionDef)]
FunctionDefNodes(t) == SelectSeq(Walk(t), LAMBDA i : t[i].kind = "FunctionDef")

\* func.name.startswith('test_')
IsTestName(name) == StartsWith(name, <<"t", "e", "s", "t", "_">>)

\* len([f for f in test_functions if f.name.startswith('test_')])
TotalTests(t) == Len(SelectSeq(FunctionDefNodes(t), LAMBDA i : IsTestName(t[i].name)))

\* [node for node in ast.walk(func) if isinstance(node, (ast.Assert, ast.Call))]
AssertOrCallNodes(t, i) ==
  LET stmts(j) == SelectSeq(t[j].body, LAMBDA s : s.node \in {"Assert", "Call"})
      RECURSIVE Gather(_)
      Gather(js) == IF js = <<>> THEN <<>> ELSE stmts(Head(js)) \o Gather(Tail(js))
  IN  Gather(Subtree(t, i))

\* For contrast: calls counted as assertions.
Mut_AssertionCount(t, i) == Len(AssertOrCallNodes(t, i))

\* len([a for a in assertions if isinstance(a, ast.Assert)])
AssertionCount(t, i) == Len(SelectSeq(AssertOrCallNodes(t, i), LAMBDA s : s.node = "Assert"))

\* func.end_lineno - func.lineno if hasattr(func, 'end_lineno') else 0
FuncLines(t, i) == IF HasAttr("end_lineno") THEN EndLineno(t, i) - Lineno(t, i) ELSE 0

-----------------------------------------------------------------------------
(* Records of the program. *)

Zero == RInt(0)

\* QualityMetrics()
QualityMetrics ==
  [business_logic_coverage |-> Zero, error_scenario_coverage |-> Zero,
   mock_isolation_score |-> Zero, realistic_data_score |-> Zero,
   documentation_score |-> Zero, maintenance_score |-> Zero,
   integration_coverage |-> Zero, overall_quality_score |-> Zero]

\* TestIssue(...); description holds the values interpolated into the text.
TestIssue(file_path, line_number, issue_type, severity, description) ==
  [file_path |-> file_path, line_number |-> line_number, issue_type |-> issue_type,
   severity |-> severity, description |-> description]

\* A pattern with one "*": "test_*.py" is Glob("test_", ".py").
Glob(prefix, suffix) == [prefix |-> prefix, suffix |-> suffix]

\* TestQualityConfig() with its defaults, lengths and counts overridden.
TestQualityConfig(bl_threshold, min_len, max_len, min_asserts, max_mocks) ==
  [min_business_logic_threshold |-> RInt(bl_threshold),
   min_error_scenario_threshold |-> RInt(60),
   business_logic_weight |-> Rat(25, 100), error_scenario_weight |-> Rat(20, 100),
   mock_isolation_weight |-> Rat(15, 100), realistic_data_weight |-> Rat(15, 100),
   documentation_weight |-> Rat(15, 100), maintenance_weight |-> Rat(10, 100),
   test_file_patterns |-> <<Glob(<<"t", "e", "s", "t", "_">>, <<".", "p", "y">>), Glob(<<>>, <<"_", "t", "e", "s", "t", ".", "p", "y">>)>>,
   exclude_dirs |-> <<<<".", "v", "e", "n", "v">>, <<"v", "e", "n", "v">>, <<"e", "n", "v">>, <<"_", "_", "p", "y", "c", "a", "c", "h", "e", "_", "_">>, <<"n", "o", "d", "e", "_", "m", "o", "d", "u", "l", "e", "s">>,
                      <<".", "g", "i", "t">>, <<".", "p", "y", "t", "e", "s", "t", "_", "c", "a", "c", "h", "e">>, <<"h", "t", "m", "l", "c", "o", "v">>, <<".", "c", "o", "v", "e", "r", "a", "g", "e">>>>,
   min_test_length |-> min_len, max_test_length |-> max_len,
   min_assertions_per_test |-> min_asserts, max_mock_objects_per_test |-> max_mocks]

-----------------------------------------------------------------------------
(* TestAnalyzer: the six passes.  Each takes the tree, the file path, the  *)
(* configuration and the metrics and issues so far, and yields             *)
(* [metrics, issues, exc, visited, total]: exc names the exception the     *)
(* pass raised ("none": it returned), visited lists the functions its loop *)
(* took as tests, total is its total_tests local (-1: not computed).       *)

PassResult(metrics, issues, exc, visited, total) ==
  [metrics |-> metrics, issues |-> issues, exc |-> exc, visited |-> visited,
   total |-> total]

\* For contrast: no test functions scored as full marks.
Mut_ScoreOf(count, total_tests) ==
  IF total_tests > 0 THEN Percent(count, total_tests) ELSE RInt(100)

\* (count / total_tests) * 100 if total_tests > 0 else 0.0
ScoreOf(count, total_tests) == IF total_tests > 0 THEN Percent(count, total_tests) ELSE Zero

\* func_lines < self.config.min_test_length
TooShort(func_lines, cfg) == func_lines < cfg.min_test_length

\* assertion_count < self.config.min_assertions_per_test
TooFewAssertions(assertion_count, cfg) == assertion_count < cfg.min_assertions_per_test

RECURSIVE StructureLoop(_, _, _, _, _)
StructureLoop(funcs, t, fp, cfg, acc) ==
  IF funcs = <<>> THEN acc
  ELSE
    LET i == Head(funcs)
        func_lines == FuncLines(t, i)
        assertion_count == AssertionCount(t, i)
        short ==
          IF TooShort(func_lines, cfg)
          THEN <<TestIssue(fp, Lineno(t, i), "test_too_short", "medium",
                           <<t[i].name, func_lines>>)>>
          ELSE <<>>
        few ==
          IF TooFewAssertions(assertion_count, cfg)
          THEN <<TestIssue(fp, Lineno(t, i), "insufficient_assertions", "medium",
                           <<t[i].name, assertion_count>>)>>
          ELSE <<>>
    IN  IF ~IsTestName(t[i].name)
        THEN StructureLoop(Tail(funcs), t, fp, cfg, acc)
        ELSE StructureLoop(Tail(funcs), t, fp, cfg,
                           [issues |-> acc.issues \o short \o few,
                            visited |-> Append(acc.visited, i)])

AnalyzeTestStructure(t, fp, cfg, metrics, issues) ==
  LET r == StructureLoop(FunctionDefNodes(t), t, fp, cfg,
                         [issues |-> issues, visited |-> <<>>])
  IN  PassResult(metrics, r.issues, "none", r.visited, -1)

BusinessLogicIndicators ==
  <<<<"c", "a", "l", "c", "u", "l", "a", "t", "e", "_">>, <<"c", "o", "m", "p", "u", "t", "e", "_">>, <<"p", "r", "o", "c", "e", "s", "s", "_">>, <<"h", "a", "n", "d", "l", "e", "_">>, <<"v", "a", "l", "i", "d", "a", "t", "e", "_">>,
    <<"t", "r", "a", "n", "s", "f", "o", "r", "m", "_">>, <<"c", "o", "n", "v", "e", "r", "t", "_">>, <<"a", "p", "p", "l", "y", "_">>, <<"e", "x", "e", "c", "u", "t", "e", "_">>, <<"p", "e", "r", "f", "o", "r", "m", "_">>>>

\* the inner for/break: some indicator is in func_content.lower()
CoversBusinessLogic(func_content) ==
  LET lowered == Lower(func_content)
  IN  \E k \in 1..Len(BusinessLogicIndicators) : In(BusinessLogicIndicators[k], lowered)

RECURSIVE BusinessLogicLoop(_, _, _)
BusinessLogicLoop(funcs, t, acc) ==
  IF funcs = <<>> THEN acc
  ELSE
    LET i == Head(funcs)
    IN  IF ~IsTestName(t[i].name)
        THEN BusinessLogicLoop(Tail(funcs), t, acc)
        ELSE BusinessLogicLoop(Tail(funcs), t,
               [count |-> acc.count + (IF CoversBusinessLogic(Segment(t, i)) THEN 1 ELSE 0),
                visited |-> Append(acc.visited, i)])

\* metrics.business_logic_coverage < self.config.min_business_logic_threshold
BelowBusinessLogicThreshold(coverage, cfg) == RLt(coverage, cfg.min_business_logic_threshold)

AnalyzeBusinessLogicCoverage(t, fp, cfg, metrics, issues) ==
  LET r == BusinessLogicLoop(FunctionDefNodes(t), t, [count |-> 0, visited |-> <<>>])
      total_tests == TotalTests(t)
      coverage == ScoreOf(r.count, total_tests)
      low ==
        IF BelowBusinessLogicThreshold(coverage, cfg)
        THEN <<TestIssue(fp, 1, "low_business_logic_coverage", "high", <<Fmt1(coverage)>>)>>
        ELSE <<>>
  IN  PassResult([metrics EXCEPT !.business_logic_coverage = coverage],
                 issues \o low, "none", r.visited, total_tests)

ErrorIndicators ==
  <<<<"r", "a", "i", "s", "e", "s">>, <<"e", "x", "c", "e", "p", "t", "i", "o", "n">>, <<"e", "r", "r", "o", "r">>, <<"f", "a", "i", "l">>, <<"i", "n", "v", "a", "l", "i", "d">>, <<"m", "a", "l", "f", "o", "r", "m", "e", "d">>,
    <<"t", "i", "m", "e", "o", "u", "t">>, <<"n", "e", "t", "w", "o", "r", "k">>, <<"p", "e", "r", "m", "i", "s", "s", "i", "o", "n">>, <<"a", "u", "t", "h", "e", "n", "t", "i", "c", "a", "t", "i", "o", "n">>, <<"a", "u", "t", "h", "o", "r", "i", "z", "a", "t", "i", "o", "n">>>>

\* has_error_test or has_with_raises
TestsErrorScenario(func_content) ==
  \/ LET lowered == Lower(func_content)
     IN  \E k \in 1..Len(ErrorIndicators) : In(ErrorIndicators[k], lowered)
  \/ In(<<"w", "i", "t", "h", " ", "r", "a", "i", "s", "e", "s">>, func_content)
  \/ In(<<"p", "y", "t", "e", "s", "t", ".", "r", "a", "i", "s", "e", "s">>, func_content)

RECURSIVE ErrorLoop(_, _, _)
ErrorLoop(funcs, t, acc) ==
  IF funcs = <<>> THEN acc
  ELSE
    LET i == Head(funcs)
    IN  IF ~IsTestName(t[i].name)
        THEN ErrorLoop(Tail(funcs), t, acc)
        ELSE ErrorLoop(Tail(funcs), t,
               [count |-> acc.count + (IF TestsErrorScenario(Segment(t, i)) THEN 1 ELSE 0),
                visited |-> Append(acc.visited, i)])

AnalyzeErrorScenarios(t, fp, cfg, metrics, issues) ==
  LET r == ErrorLoop(FunctionDefNodes(t), t, [count |-> 0, visited |-> <<>>])
      total_tests == TotalTests(t)
  IN  PassResult([metrics EXCEPT !.error_scenario_coverage = ScoreOf(r.count, total_tests)],
                 issues, "none", r.visited, total_tests)

MockIndicators == <<<<"m", "o", "c", "k">>, <<"p", "a", "t", "c", "h">>, <<"M", "a", "g", "i", "c", "M", "o", "c", "k">>, <<"A", "s", "y", "n", "c", "M", "o", "c", "k">>, <<"s", "t", "u", "b">>>>

\* sum(func_content.lower().count(indicator) for indicator in mock_indicators)
MockCount(func_content) ==
  LET lowered == Lower(func_content)
  IN  SumSeq([k \in 1..Len(MockIndicators) |-> Count(lowered, MockIndicators[k])])

\* For contrast: a test without mocks counted as isolated.
Mut_IsIsolated(mock_count, cfg) == mock_count <= cfg.max_mock_objects_per_test

\* 0 < mock_count <= self.config.max_mock_objects_per_test
IsIsolated(mock_count, cfg) == 0 < mock_count /\ mock_count <= cfg.max_mock_objects_per_test

\* elif mock_count > self.config.max_mock_objects_per_test
TooManyMocks(mock_count, cfg) == mock_count > cfg.max_mock_objects_per_test

RECURSIVE MockLoop(_, _, _, _, _)
MockLoop(funcs, t, fp, cfg, acc) ==
  IF funcs = <<>> THEN acc
  ELSE
    LET i == Head(funcs)
        mock_count == MockCount(Segment(t, i))
    IN  IF ~IsTestName(t[i].name)
        THEN MockLoop(Tail(funcs), t, fp, cfg, acc)
        ELSE IF IsIsolated(mock_count, cfg)
        THEN MockLoop(Tail(funcs), t, fp, cfg,
               [issues |-> acc.issues, count |-> acc.count + 1,
                visited |-> Append(acc.visited, i)])
        ELSE IF TooManyMocks(mock_count, cfg)
        THEN MockLoop(Tail(funcs), t, fp, cfg,
               [issues |-> Append(acc.issues,
                                  TestIssue(fp, Lineno(t, i), "too_many_mocks", "medium",
                                            <<t[i].name, mock_count>>)),
                count |-> acc.count, visited |-> Append(acc.visited, i)])
        ELSE MockLoop(Tail(funcs), t, fp, cfg,
               [issues |-> acc.issues, count |-> acc.count,
                visited |-> Append(acc.visited, i)])

AnalyzeMockUsage(t, fp, cfg, metrics, issues) ==
  LET r == MockLoop(FunctionDefNodes(t), t, fp, cfg,
                    [issues |-> issues, count |-> 0, visited |-> <<>>])
      total_tests == TotalTests(t)
  IN  PassResult([metrics EXCEPT !.mock_isolation_score = ScoreOf(r.count, total_tests)],
                 r.issues, "none", r.visited, total_tests)

DocKeywords == <<<<"t", "e", "s", "t">>, <<"v", "e", "r", "i", "f", "y">>, <<"c", "h", "e", "c", "k">>, <<"e", "n", "s", "u", "r", "e">>>>

\* docstring and len(docstring.strip()) > 20 and any(keyword in docstring.lower() ...)
WellDocumented(docstring) ==
  /\ docstring # <<>>
  /\ Len(Strip(docstring)) > 20
  /\ \E k \in 1..Len(DocKeywords) : In(DocKeywords[k], Lower(docstring))

\* The loop reads func.docstring: an attribute the node does not carry
\* raises AttributeError and ends the pass.
RECURSIVE DocumentationLoop(_, _, _, _)
DocumentationLoop(funcs, t, fp, acc) ==
  IF funcs = <<>> THEN acc
  ELSE
    LET i == Head(funcs)
    IN  IF ~IsTestName(t[i].name)
        THEN DocumentationLoop(Tail(funcs), t, fp, acc)
        ELSE IF ~HasAttr("docstring")
        THEN [acc EXCEPT !.exc = "AttributeError", !.visited = Append(acc.visited, i)]
        ELSE IF WellDocumented(t[i].doc)
        THEN DocumentationLoop(Tail(funcs), t, fp,
               [acc EXCEPT !.count = acc.count + 1, !.visited = Append(acc.visited, i)])
        ELSE DocumentationLoop(Tail(funcs), t, fp,
               [acc EXCEPT !.issues = Append(acc.issues,
                                       TestIssue(fp, Lineno(t, i), "missing_documentation",
                                                 "low", <<t[i].name>>)),
                           !.visited = Append(acc.visited, i)])

AnalyzeDocumentation(t, fp, cfg, metrics, issues) ==
  LET r == DocumentationLoop(FunctionDefNodes(t), t, fp,
                             [issues |-> issues, count |-> 0, visited |-> <<>>,
                              exc |-> "none"])
      total_tests == TotalTests(t)
  IN  IF r.exc # "none"
      THEN PassResult(metrics, r.issues, r.exc, r.visited, -1)
      ELSE PassResult([metrics EXCEPT !.documentation_score = ScoreOf(r.count, total_tests)],
                      r.issues, "none", r.visited, total_tests)

\* min_test_length <= func_lines <= max_test_length and func.name and '_' in func.name
IsMaintainable(func_lines, name, cfg) ==
  /\ cfg.min_test_length <= func_lines
  /\ func_lines <= cfg.max_test_length
  /\ name # <<>>
  /\ In(<<"_">>, name)

\* elif func_lines > self.config.max_test_length
TooLong(func_lines, cfg) == func_lines > cfg.max_test_length

RECURSIVE MaintainabilityLoop(_, _, _, _, _)
MaintainabilityLoop(funcs, t, fp, cfg, acc) ==
  IF funcs = <<>> THEN acc
  ELSE
    LET i == Head(funcs)
        func_lines == FuncLines(t, i)
    IN  IF ~IsTestName(t[i].name)
        THEN MaintainabilityLoop(Tail(funcs), t, fp, cfg, acc)
        ELSE IF IsMaintainable(func_lines, t[i].name, cfg)
        THEN MaintainabilityLoop(Tail(funcs), t, fp, cfg,
               [issues |-> acc.issues, count |-> acc.count + 1,
                visited |-> Append(acc.visited, i)])
        ELSE IF TooLong(func_lines, cfg)
        THEN MaintainabilityLoop(Tail(funcs), t, fp, cfg,
               [issues |-> Append(acc.issues,
                                  TestIssue(fp, Lineno(t, i), "test_too_long", "medium",
                                            <<t[i].name, func_lines>>)),
                count |-> acc.count, visited |-> Append(acc.visited, i)])
        ELSE MaintainabilityLoop(Tail(funcs), t, fp, cfg,
               [issues |-> acc.issues, count |-> acc.count,
                visited |-> Append(acc.visited, i)])

AnalyzeMaintainability(t, fp, cfg, metrics, issues) ==
  LET r == MaintainabilityLoop(FunctionDefNodes(t), t, fp, cfg,
                               [issues |-> issues, count |-> 0, visited |-> <<>>])
      total_tests == TotalTests(t)
  IN  PassResult([metrics EXCEPT !.maintenance_score = ScoreOf(r.count, total_tests)],
                 r.issues, "none", r.visited, total_tests)

\* score += metric_value * weight over the six weighted metrics
WeightedSum(metrics, cfg) ==
  RAdd(RMul(metrics.business_logic_coverage, cfg.business_logic_weight),
  RAdd(RMul(metrics.error_scenario_coverage, cfg.error_scenario_weight),
  RAdd(RMul(metrics.mock_isolation_score, cfg.mock_isolation_weight),
  RAdd(RMul(metrics.realistic_data_score, cfg.realistic_data_weight),
  RAdd(RMul(metrics.documentation_score, cfg.documentation_weight),
       RMul(metrics.maintenance_score, cfg.maintenance_weight))))))

\* return min(score, 100.0)
CalculateOverallScore(metrics, cfg) == RMin(WeightedSum(metrics, cfg), RInt(100))

-----------------------------------------------------------------------------
(* TestQualityValidator: discovery, aggregation, report. *)

\* Characters in code point order, for the order of paths.
Ascii == <<" ", "(", ")", ".", "0", "1", "2", "3", "4", "5", "6", "7", "8", "9", "A", "B", "C", "D", "E", "F", "G", "H", "I", "J", "K", "L", "M", "N", "O", "P", "Q", "R", "S", "T", "U", "V", "W", "X", "Y", "Z", "_", "a", "b", "c", "d", "e", "f", "g", "h", "i", "j", "k", "l", "m", "n", "o", "p", "q", "r", "s", "t", "u", "v", "w", "x", "y", "z">>

Ord(c) == CHOOSE i \in 1..Len(Ascii) : Ascii[i] = c

RECURSIVE StrLt(_, _)
StrLt(a, b) ==
  IF b = <<>> THEN FALSE
  ELSE IF a = <<>> THEN TRUE
  ELSE IF Head(a) = Head(b) THEN StrLt(Tail(a), Tail(b))
  ELSE Ord(Head(a)) < Ord(Head(b))

\* Path.__lt__: by parts.
RECURSIVE PathLt(_, _)
PathLt(p, q) ==
  IF q = <<>> THEN FALSE
  ELSE IF p = <<>> THEN TRUE
  ELSE IF Head(p) = Head(q) THEN PathLt(Tail(p), Tail(q))
  ELSE StrLt(Head(p), Head(q))

RECURSIVE Insert(_, _)
Insert(x, sorted) ==
  IF sorted = <<>> THEN <<x>>
  ELSE IF PathLt(x, Head(sorted)) THEN <<x>> \o sorted
  ELSE <<Head(sorted)>> \o Insert(x, Tail(sorted))

\* sorted(paths)
RECURSIVE Sorted(_)
Sorted(paths) == IF paths = <<>> THEN <<>> ELSE Insert(Head(paths), Sorted(Tail(paths)))

\* fnmatch of a file name against a one-star pattern
Matches(name, pat) ==
  /\ Len(name) >= Len(pat.prefix) + Len(pat.suffix)
  /\ StartsWith(name, pat.prefix)
  /\ EndsWith(name, pat.suffix)

\* project_root.rglob(pattern): the files below the root whose name matches, in path order
RGlob(root, files, pat) ==
  LET hits == {f \in files : /\ Len(f) > Len(root)
                             /\ SubSeq(f, 1, Len(root)) = root
                             /\ Matches(f[Len(f)], pat)}
      RECURSIVE List(_)
      List(S) == IF S = {} THEN <<>>
                 ELSE LET x == CHOOSE x \in S : \A y \in S : y = x \/ PathLt(x, y)
                      IN  <<x>> \o List(S \ {x})
  IN  List(hits)

\* For contrast: only the directory that holds the file compared with the
\* excluded names.
Mut_ShouldExclude(path, cfg) ==
  \E k \in 1..Len(cfg.exclude_dirs) : Len(path) > 1 /\ path[Len(path) - 1] = cfg.exclude_dirs[k]

\* exclude in path_parts, for some exclude of exclude_dirs
ShouldExclude(path, cfg) ==
  \E k \in 1..Len(cfg.exclude_dirs) : \E j \in 1..Len(path) : path[j] = cfg.exclude_dirs[k]

\* self.project_root in test_file.parents
InProject(root, path) == Len(path) > Len(root) /\ SubSeq(path, 1, Len(root)) = root

RECURSIVE FindLoop(_, _, _, _)
FindLoop(pats, root, files, cfg) ==
  IF pats = <<>> THEN <<>>
  ELSE SelectSeq(RGlob(root, files, Head(pats)),
                 LAMBDA f : ~ShouldExclude(f, cfg) /\ InProject(root, f))
       \o FindLoop(Tail(pats), root, files, cfg)

\* _find_test_files
FindTestFiles(root, files, cfg) == Sorted(FindLoop(cfg.test_file_patterns, root, files, cfg))

RECURSIVE SumMetric(_, _)
SumMetric(ms, name) ==
  IF ms = <<>> THEN Zero ELSE RAdd(Head(ms)[name], SumMetric(Tail(ms), name))

\* For contrast: the sums, not divided by the number of files.
Mut_CalculateProjectMetrics(file_metrics) ==
  [f \in DOMAIN QualityMetrics |->
     IF f = "integration_coverage" THEN Zero ELSE SumMetric(file_metrics, f)]

\* _calculate_project_metrics
CalculateProjectMetrics(file_metrics) ==
  IF file_metrics = <<>> THEN QualityMetrics
  ELSE LET count == Len(file_metrics)
           mean(name) == RDivInt(SumMetric(file_metrics, name), count)
       IN  [QualityMetrics EXCEPT
              !.business_logic_coverage = mean("business_logic_coverage"),
              !.error_scenario_coverage = mean("error_scenario_coverage"),
              !.mock_isolation_score = mean("mock_isolation_score"),
              !.realistic_data_score = mean("realistic_data_score"),
              !.documentation_score = mean("documentation_score"),
              !.maintenance_score = mean("maintenance_score"),
              !.overall_quality_score = mean("overall_quality_score")]

CountWhere(seq, Test(_)) == Len(SelectSeq(seq, Test))

\* For contrast: every issue counted as a file of its own.
Mut_FilesWithIssues(issues) == Len(issues)

\* len(set(i.file_path for i in issues))
FilesWithIssues(issues) == Cardinality({issues[k].file_path : k \in 1..Len(issues)})

\* _summarize_issues
SummarizeIssues(issues) ==
  [total_issues |-> Len(issues),
   by_severity |->
     [critical |-> CountWhere(issues, LAMBDA i : i.severity = "critical"),
      high |-> CountWhere(issues, LAMBDA i : i.severity = "high"),
      medium |-> CountWhere(issues, LAMBDA i : i.severity = "medium"),
      low |-> CountWhere(issues, LAMBDA i : i.severity = "low")],
   by_type |->
     [ty \in {issues[k].issue_type : k \in 1..Len(issues)} |->
        CountWhere(issues, LAMBDA i : i.issue_type = ty)],
   files_with_issues |-> FilesWithIssues(issues)]

\* For contrast: a metric on its threshold counted as below it.
Mut_GenerateRecommendations(metrics, issue_summary, cfg) ==
  (IF RLe(metrics.business_logic_coverage, cfg.min_business_logic_threshold)
   THEN <<<<"business_logic", Fmt1(metrics.business_logic_coverage)>>>> ELSE <<>>)
  \o (IF RLe(metrics.error_scenario_coverage, cfg.min_error_scenario_threshold)
      THEN <<<<"error_scenario", Fmt1(metrics.error_scenario_coverage)>>>> ELSE <<>>)
  \o (IF RLe(metrics.mock_isolation_score, RInt(70))
      THEN <<<<"isolation", Fmt1(metrics.mock_isolation_score)>>>> ELSE <<>>)
  \o (IF RLe(metrics.documentation_score, RInt(70))
      THEN <<<<"documentation", Fmt1(metrics.documentation_score)>>>> ELSE <<>>)
  \o (IF issue_summary.by_severity.high > 0 \/ issue_summary.by_severity.critical > 0
      THEN <<<<"priority", issue_summary.by_severity.high,
               issue_summary.by_severity.critical>>>> ELSE <<>>)

\* _generate_recommendations; each entry holds the values its sentence embeds
GenerateRecommendations(metrics, issue_summary, cfg) ==
  (IF RLt(metrics.business_logic_coverage, cfg.min_business_logic_threshold)
   THEN <<<<"business_logic", Fmt1(metrics.business_logic_coverage)>>>> ELSE <<>>)
  \o (IF RLt(metrics.error_scenario_coverage, cfg.min_error_scenario_threshold)
      THEN <<<<"error_scenario", Fmt1(metrics.error_scenario_coverage)>>>> ELSE <<>>)
  \o (IF RLt(metrics.mock_isolation_score, RInt(70))
      THEN <<<<"isolation", Fmt1(metrics.mock_isolation_score)>>>> ELSE <<>>)
  \o (IF RLt(metrics.documentation_score, RInt(70))
      THEN <<<<"documentation", Fmt1(metrics.documentation_score)>>>> ELSE <<>>)
  \o (IF issue_summary.by_severity.high > 0 \/ issue_summary.by_severity.critical > 0
      THEN <<<<"priority", issue_summary.by_severity.high,
               issue_summary.by_severity.critical>>>> ELSE <<>>)

\* For contrast: the thresholds themselves fall into the lower grade.
Mut_CalculateQualityGrade(score) ==
  IF RLt(RInt(90), score) THEN "A"
  ELSE IF RLt(RInt(80), score) THEN "B"
  ELSE IF RLt(RInt(70), score) THEN "C"
  ELSE IF RLt(RInt(60), score) THEN "D"
  ELSE "F"

\* _calculate_quality_grade
CalculateQualityGrade(score) ==
  IF RLe(RInt(90), score) THEN "A"
  ELSE IF RLe(RInt(80), score) THEN "B"
  ELSE IF RLe(RInt(70), score) THEN "C"
  ELSE IF RLe(RInt(60), score) THEN "D"
  ELSE "F"

\* The dataclass fields of QualityMetrics: what asdict() keeps.
MetricFields ==
  {"business_logic_coverage", "error_scenario_coverage", "mock_isolation_score",
   "realistic_data_score", "documentation_score", "maintenance_score",
   "integration_coverage", "overall_quality_score"}

\* asdict(m)
AsDict(m) == [f \in MetricFields |-> m[f]]

\* metrics.file_path = str(test_file): an attribute set on the instance
WithFilePath(m, path) == [f \in MetricFields \cup {"file_path"} |->
                            IF f = "file_path" THEN path ELSE m[f]]

\* the report dictionary of analyze_project
BuildReport(root, files, ms, iss, cfg) ==
  LET project_metrics == CalculateProjectMetrics(ms)
      issue_summary == SummarizeIssues(iss)
  IN  [project_path |-> root,
       test_files_analyzed |-> Len(files),
       project_metrics |-> AsDict(project_metrics),
       file_metrics |-> [k \in 1..Len(ms) |-> AsDict(ms[k])],
       issue_summary |-> issue_summary,
       recommendations |-> GenerateRecommendations(project_metrics, issue_summary, cfg),
       quality_grade |-> CalculateQualityGrade(project_metrics.overall_quality_score)]

-----------------------------------------------------------------------------
(* Inputs: test files, configurations, projects. *)

Stmt(node, src) == [node |-> node, src |-> src]

S_assert == Stmt("Assert", <<"a", "s", "s", "e", "r", "t", " ", "r">>)
S_called == Stmt("Call", <<"m", ".", "o", "k", "(", ")">>)
S_calc   == Stmt("Call", <<"c", "a", "l", "c", "u", "l", "a", "t", "e", "_", "t", "(", ")">>)
S_Comp   == Stmt("Call", <<"C", "o", "m", "p", "u", "t", "e", "_", "t", "(", ")">>)
S_magic  == Stmt("Call", <<"M", "a", "g", "i", "c", "M", "o", "c", "k", "(", ")">>)
S_patch  == Stmt("Call", <<"p", "a", "t", "c", "h", "(", "m", "o", "c", "k", ")">>)
S_raises == Stmt("Call", <<"p", "y", "t", "e", "s", "t", ".", "r", "a", "i", "s", "e", "s", "(", "E", ")">>)
S_pass   == Stmt("Pass", <<"p", "a", "s", "s">>)

Def(kind, name, doc, body) == [kind |-> kind, name |-> name, doc |-> doc, body |-> body]

B_plain == <<S_assert, S_pass>>

\* Function bodies: lengths around the length limits, assertions and calls,
\* business-logic, error and mock vocabulary in either case.
Bodies ==
  {B_plain,
   <<S_called>>,
   <<S_calc, S_assert, S_assert>>,
   <<S_Comp, S_magic, S_assert, S_pass>>,
   <<S_patch, S_magic, S_raises>>}

\* Docstrings: long with a keyword, long only by its blanks.
Docs ==
  {<<"V", "e", "r", "i", "f", "y", " ", "t", "h", "e", " ", "t", "o", "t", "a", "l", " ", "i", "s", " ", "r", "i", "g", "h", "t">>,
   <<" ", " ", "c", "h", "e", "c", "k", " ", "t", "h", "e", " ", "t", "o", "t", "a", "l", " ", " ", " ", " ", " ", " ">>}

Definitions ==
  {Def("FunctionDef", <<"t", "e", "s", "t", "_", "a">>, <<>>, b) : b \in Bodies}
  \cup {Def("FunctionDef", n, <<>>, B_plain) : n \in {<<"t", "e", "s", "t", "_", "a", "_", "b">>, <<"h", "e", "l", "p">>, <<"t", "e", "s", "t", "x">>}}
  \cup {Def("AsyncFunctionDef", <<"t", "e", "s", "t", "_", "a">>, <<>>, B_plain),
        Def("ClassDef", <<"T", "e", "s", "t", "K">>, <<>>, <<S_pass>>)}
  \cup {Def("FunctionDef", <<"t", "e", "s", "t", "_", "a">>, d, B_plain) : d \in Docs}

WithParent(d, p) ==
  [kind |-> d.kind, name |-> d.name, parent |-> p, doc |-> d.doc, body |-> d.body]

\* Where the next definition of a pre-order listing may hang: the module,
\* the last definition, or one that encloses it.
OpenParents(t) ==
  {0} \cup (IF t = <<>> THEN {}
            ELSE {Len(t)} \cup {a \in 1..Len(t) : IsAncestor(t, a, Len(t))})

\* The definitions that files with several definitions are made of: tests
\* short, long, with and without mocks, and what is no test function.
Mixed ==
  {Def("FunctionDef", <<"t", "e", "s", "t", "_", "a">>, <<>>, b) :
     b \in {B_plain, <<S_called>>, <<S_Comp, S_magic, S_assert, S_pass>>,
            <<S_patch, S_magic, S_raises>>}}
  \cup {Def("FunctionDef", <<"t", "e", "s", "t", "x">>, <<>>, B_plain),
        Def("AsyncFunctionDef", <<"t", "e", "s", "t", "_", "a">>, <<>>, B_plain),
        Def("ClassDef", <<"T", "e", "s", "t", "K">>, <<>>, <<S_pass>>)}

RECURSIVE TreesOfLen(_)
TreesOfLen(n) ==
  IF n = 0 THEN {<<>>}
  ELSE {Append(t, WithParent(d, p)) :
          t \in TreesOfLen(n - 1), d \in Mixed, p \in 0..(n - 1)}

ValidTree(t) == \A i \in 1..Len(t) : t[i].parent \in OpenParents(SubSeq(t, 1, i - 1))

\* A module of one definition of any kind, or of up to MaxNodes mixed ones.
Trees ==
  {<<WithParent(d, 0)>> : d \in Definitions}
  \cup {t \in UNION {TreesOfLen(n) : n \in 0..MaxNodes} : ValidTree(t)}

\* What open() and ast.parse() make of a file: a tree, or a failure.
Parsed(t) == [ok |-> TRUE, tree |-> t]
Unparsable == [ok |-> FALSE, tree |-> <<>>]

FewTrees ==
  {<<>>,
   <<WithParent(Def("FunctionDef", <<"t", "e", "s", "t", "_", "a">>, <<>>, <<S_pass>>), 0)>>,
   <<WithParent(Def("FunctionDef", <<"h", "e", "l", "p">>, <<>>, B_plain), 0)>>}

DefaultConfig == TestQualityConfig(70, 2, 3, 1, 1)

\* Thresholds and limits that the files above meet, miss and hit exactly.
Configs == {TestQualityConfig(50, 2, 3, 1, 1), TestQualityConfig(70, 2, 3, 2, 3)}

ProjectRoot == <<<<"p", "r", "o", "j">>>>

P_test_a == ProjectRoot \o <<<<"t", "e", "s", "t", "s">>, <<"t", "e", "s", "t", "_", "a", ".", "p", "y">>>>
P_b_test == ProjectRoot \o <<<<"t", "e", "s", "t", "s">>, <<"b", "_", "t", "e", "s", "t", ".", "p", "y">>>>
P_both   == ProjectRoot \o <<<<"t", "e", "s", "t", "s">>, <<"t", "e", "s", "t", "_", "c", "_", "t", "e", "s", "t", ".", "p", "y">>>>
P_venv   == ProjectRoot \o <<<<".", "v", "e", "n", "v">>, <<"l", "i", "b">>, <<"t", "e", "s", "t", "_", "v", ".", "p", "y">>>>
P_source == ProjectRoot \o <<<<"t", "e", "s", "t", "s">>, <<"c", "a", "l", "c", ".", "p", "y">>>>

AllPaths == {P_test_a, P_b_test, P_both, P_venv, P_source}

\* Files whose content the analysis never reads hold one fixed content.
Unread == {P_venv, P_source}

\* One file with any of the trees, or up to MaxFiles files with few.
FileSystems ==
  {[f \in {P_test_a} |-> Parsed(t)] : t \in Trees}
  \cup UNION {
         {fsys \in [S -> {Unparsable} \cup {Parsed(t) : t \in FewTrees}] :
            \A f \in S \cap Unread : fsys[f] = Parsed(<<>>)} :
         S \in {S \in SUBSET AllPaths : Cardinality(S) <= MaxFiles}}

-----------------------------------------------------------------------------
(* test_creation_framework: the parsed source module.                      *)
(* A module body is a sequence of top-level nodes.  A FunctionDef holds    *)
(* its name and args, each [arg, annotation]; a ClassDef its name and a    *)
(* body of FunctionDef, AsyncFunctionDef and Assign nodes; an annotation   *)
(* is an expression node or absent.                                        *)

\* Python's None as a value of a field that otherwise holds a string.
None == <<"<None>">>

NoAnnotation == [node |-> "absent"]
Name(id) == [node |-> "Name", id |-> id]
Attribute(value, attr) == [node |-> "Attribute", value |-> value, attr |-> attr]
Subscript(value, slice) == [node |-> "Subscript", value |-> value, slice |-> slice]
Constant(value) == [node |-> "Constant", value |-> value]
TupleNode == [node |-> "Tuple"]
BinOp == [node |-> "BinOp"]

Arg(arg, annotation) == [arg |-> arg, annotation |-> annotation]
FunctionDef(name, args) == [node |-> "FunctionDef", name |-> name, args |-> args]
AsyncFunctionDef(name) == [node |-> "AsyncFunctionDef", name |-> name, args |-> <<>>]
Assign(target) == [node |-> "Assign", target |-> target]
Import(module) == [node |-> "Import", module |-> module]
ClassDef(name, body) == [node |-> "ClassDef", name |-> name, body |-> body]

\* _get_node_type; a Constant node holds str(node.value)
RECURSIVE GetNodeType(_)
GetNodeType(node) ==
  CASE node.node = "Name" -> node.id
    [] node.node = "Attribute" -> GetNodeType(node.value) \o <<".">> \o node.attr
    [] node.node = "Subscript" ->
         GetNodeType(node.value) \o <<"[">> \o GetNodeType(node.slice) \o <<"]">>
    [] node.node = "Constant" -> node.value
    [] OTHER -> <<"A", "n", "y">>

\* param_info of _analyze_function: type stays None without an annotation
ParamInfo(arg) ==
  [name |-> arg.arg,
   type |-> IF arg.annotation = NoAnnotation THEN None ELSE GetNodeType(arg.annotation),
   default |-> None]

\* _analyze_function (docstring and decorators left out)
AnalyzeFunction(node) ==
  [name |-> node.name,
   is_private |-> StartsWith(node.name, <<"_">>),
   parameters |-> [k \in 1..Len(node.args) |-> ParamInfo(node.args[k])]]

\* method_info of _analyze_class
MethodInfo(item) ==
  [f \in {"name", "is_private", "parameters", "is_dunder"} |->
     IF f = "is_dunder" THEN StartsWith(item.name, <<"_", "_">>) ELSE AnalyzeFunction(item)[f]]

\* _analyze_class: [exc, value].  The loop over node.body reads target.name
\* of an ast.Name target, an attribute that ast.Name does not have.
RECURSIVE ClassLoop(_, _)
ClassLoop(body, methods) ==
  IF body = <<>> THEN [exc |-> "none", methods |-> methods]
  ELSE LET item == Head(body)
       IN  IF item.node = "FunctionDef"
           THEN ClassLoop(Tail(body), Append(methods, MethodInfo(item)))
           ELSE IF item.node = "Assign"
           THEN [exc |-> "AttributeError", methods |-> methods]
           ELSE ClassLoop(Tail(body), methods)

AnalyzeClass(node) ==
  LET r == ClassLoop(node.body, <<>>)
  IN  [exc |-> r.exc,
       value |-> [name |-> node.name,
                  is_private |-> StartsWith(node.name, <<"_">>),
                  methods |-> r.methods,
                  properties |-> <<>>]]

\* str.isupper(): some cased character, and none of them lower case
IsUpper(s) ==
  /\ \E i \in 1..Len(s) : s[i] \in DOMAIN LowerTable
  /\ \A i \in 1..Len(s) : \A j \in 1..Len(LowerLetters) : s[i] # LowerLetters[j]

\* Path.stem and Path.with_suffix(""): the name up to its last dot
LastDot(name) ==
  LET dots == {i \in 2..Len(name) : name[i] = "."}
  IN  IF dots = {} THEN 0 ELSE CHOOSE i \in dots : \A j \in dots : j <= i

Stem(name) == IF LastDot(name) = 0 THEN name ELSE SubSeq(name, 1, LastDot(name) - 1)

RECURSIVE JoinWith(_, _)
JoinWith(sep, parts) ==
  IF parts = <<>> THEN <<>>
  ELSE IF Len(parts) = 1 THEN parts[1]
  ELSE parts[1] \o sep \o JoinWith(sep, Tail(parts))

SourceDirs == {<<"s", "r", "c">>, <<"l", "i", "b">>, <<"a", "p", "p">>}

\* _get_import_path
GetImportPath(file_path) ==
  LET n == Len(file_path)
      parts == [k \in 1..n |-> IF k = n THEN Stem(file_path[k]) ELSE file_path[k]]
      kept == IF parts # <<>> /\ parts[1] \in SourceDirs THEN Tail(parts) ELSE parts
  IN  JoinWith(<<".">>, kept)

EmptyModuleInfo(file_path) ==
  [name |-> Stem(file_path[Len(file_path)]),
   import_path |-> GetImportPath(file_path),
   functions |-> <<>>, classes |-> <<>>, imports |-> <<>>, constants |-> <<>>]

\* For contrast: a failed parse answered with the model of an empty module.
Mut_DegradedModuleInfo(file_path, e) == EmptyModuleInfo(file_path)

\* the except clause of analyze_module
DegradedModuleInfo(file_path, e) ==
  [name |-> Stem(file_path[Len(file_path)]),
   import_path |-> Stem(file_path[Len(file_path)]),
   error |-> e,
   functions |-> <<>>, classes |-> <<>>, imports |-> <<>>, constants |-> <<>>]

\* the first loop over tree.body: imports
RECURSIVE ImportLoop(_, _)
ImportLoop(body, info) ==
  IF body = <<>> THEN info
  ELSE ImportLoop(Tail(body),
         IF Head(body).node = "Import"
         THEN [info EXCEPT !.imports =
                 Append(@, [type |-> "import", module |-> Head(body).module, alias |-> None])]
         ELSE info)

\* the second loop over tree.body: functions, classes, constants; [exc, info]
RECURSIVE DefinitionLoop(_, _)
DefinitionLoop(body, info) ==
  IF body = <<>> THEN [exc |-> "none", info |-> info]
  ELSE LET node == Head(body)
       IN  CASE node.node = "FunctionDef" ->
                  DefinitionLoop(Tail(body),
                    [info EXCEPT !.functions = Append(@, AnalyzeFunction(node))])
             [] node.node = "ClassDef" ->
                  LET c == AnalyzeClass(node)
                  IN  IF c.exc # "none" THEN [exc |-> c.exc, info |-> info]
                      ELSE DefinitionLoop(Tail(body),
                             [info EXCEPT !.classes = Append(@, c.value)])
             [] node.node = "Assign" ->
                  DefinitionLoop(Tail(body),
                    IF IsUpper(node.target)
                    THEN [info EXCEPT !.constants =
                            Append(@, [name |-> node.target, value |-> <<".", ".", ".">>])]
                    ELSE info)
             [] OTHER -> DefinitionLoop(Tail(body), info)

\* analyze_module: file is what open() and ast.parse() make of the file
AnalyzeModule(file_path, file) ==
  IF ~file.ok THEN DegradedModuleInfo(file_path, "SyntaxError")
  ELSE LET r == DefinitionLoop(file.tree, ImportLoop(file.tree, EmptyModuleInfo(file_path)))
       IN  IF r.exc = "none" THEN r.info ELSE DegradedModuleInfo(file_path, r.exc)

-----------------------------------------------------------------------------
(* test_creation_framework: the test template.                             *)
(* The generated text is kept as its parts: the names of the import line,  *)
(* the fixtures, and the test functions (stubs), each with the class it    *)
(* is put in, its name, its docstring and the lines of its body.           *)

\* TestCreationConfig: the settings the unit test template reads
TestCreationConfig(errors, edges, mocks) ==
  [output_directory |-> <<"t", "e", "s", "t", "s">>,
   test_file_prefix |-> <<"t", "e", "s", "t", "_">>,
   include_error_scenarios |-> errors,
   include_edge_cases |-> edges,
   auto_generate_mocks |-> mocks]

UpperChar(c) ==
  IF \E i \in 1..Len(LowerLetters) : LowerLetters[i] = c
  THEN UpperLetters[CHOOSE i \in 1..Len(LowerLetters) : LowerLetters[i] = c]
  ELSE c

IsCased(c) == c \in DOMAIN LowerTable \/ \E i \in 1..Len(LowerLetters) : LowerLetters[i] = c

\* str.title(): a cased character is upper case after an uncased one or at
\* the start, lower case after a cased one
Title(s) ==
  [i \in 1..Len(s) |->
     IF i = 1 \/ ~IsCased(s[i - 1]) THEN UpperChar(s[i]) ELSE LowerChar(s[i])]

Indent == <<" ", " ", " ", " ", " ", " ", " ", " ">>

\* One test method of the template.  header is the docstring of the class
\* line written in front of the method (None: the method follows another
\* one of the same class); body holds the lines after the docstring.
Stub(class, header, name, args, doc, body) ==
  [class |-> class, header |-> header, name |-> name, args |-> args, doc |-> doc,
   body |-> body]

\* the if/elif chain over param_type, the lowercased type label
ValueFor(param_type) ==
  IF In(<<"i", "n", "t">>, param_type) \/ In(<<"n", "u", "m", "b", "e", "r">>, param_type) THEN <<"1">>
  ELSE IF In(<<"f", "l", "o", "a", "t">>, param_type) \/ In(<<"d", "e", "c", "i", "m", "a", "l">>, param_type) THEN <<"1", ".", "0">>
  ELSE IF In(<<"b", "o", "o", "l">>, param_type) THEN <<"T", "r", "u", "e">>
  ELSE IF In(<<"l", "i", "s", "t">>, param_type) \/ In(<<"a", "r", "r", "a", "y">>, param_type) THEN <<"[", "]">>
  ELSE IF In(<<"d", "i", "c", "t">>, param_type) \/ In(<<"o", "b", "j", "e", "c", "t">>, param_type) THEN <<"{", "}">>
  ELSE <<"'", "t", "e", "s", "t", "_", "v", "a", "l", "u", "e", "'">>

\* params[:3]
Limited(params) == SubSeq(params, 1, IF Len(params) < 3 THEN Len(params) ELSE 3)

\* the for loop of _generate_basic_function_test: [exc, assignments, names];
\* param.get("type", "str").lower() raises on a type that is None
RECURSIVE AssignmentLoop(_, _)
AssignmentLoop(params, acc) ==
  IF params = <<>> THEN acc
  ELSE LET param == Head(params)
       IN  IF param.type = None
           THEN [acc EXCEPT !.exc = "AttributeError"]
           ELSE AssignmentLoop(Tail(params),
                  [exc |-> "none",
                   assignments |->
                     Append(acc.assignments,
                            Indent \o param.name \o <<" ", "=", " ">> \o ValueFor(Lower(param.type))),
                   names |-> Append(acc.names, param.name)])

\* _generate_basic_function_test: [exc, lines]
BasicFunctionTest(func_name, params) ==
  IF params = <<>>
  THEN [exc |-> "none",
        lines |-> <<Indent \o <<"#", " ", "T", "e", "s", "t", " ", "w", "i", "t", "h", " ", "n", "o", " ", "p", "a", "r", "a", "m", "e", "t", "e", "r", "s">>,
                    Indent \o <<"r", "e", "s", "u", "l", "t", " ", "=", " ">> \o func_name \o <<"(", ")">>,
                    Indent \o <<"a", "s", "s", "e", "r", "t", " ", "r", "e", "s", "u", "l", "t", " ", "i", "s", " ", "n", "o", "t", " ", "N", "o", "n", "e">>,
                    Indent \o <<"a", "s", "s", "e", "r", "t", " ", "i", "s", "i", "n", "s", "t", "a", "n", "c", "e", "(", "r", "e", "s", "u", "l", "t", ",", " ", "e", "x", "p", "e", "c", "t", "e", "d", "_", "t", "y", "p", "e", ")", " ", " ", "#", " ", "R", "e", "p", "l", "a", "c", "e", " ", "w", "i", "t", "h", " ", "a", "c", "t", "u", "a", "l", " ", "e", "x", "p", "e", "c", "t", "e", "d", " ", "t", "y", "p", "e">>>>]
  ELSE LET r == AssignmentLoop(Limited(params),
                               [exc |-> "none", assignments |-> <<>>, names |-> <<>>])
       IN  [exc |-> r.exc,
            lines |-> <<Indent \o <<"#", " ", "T", "e", "s", "t", " ", "w", "i", "t", "h", " ", "v", "a", "l", "i", "d", " ", "p", "a", "r", "a", "m", "e", "t", "e", "r", "s">>>>
                      \o r.assignments
                      \o <<Indent \o <<"r", "e", "s", "u", "l", "t", " ", "=", " ">> \o func_name \o <<"(">>
                             \o JoinWith(<<",", " ">>, r.names) \o <<")">>,
                           Indent,
                           Indent \o <<"#", " ", "A", "d", "d", " ", "a", "s", "s", "e", "r", "t", "i", "o", "n", "s", " ", "b", "a", "s", "e", "d", " ", "o", "n", " ", "e", "x", "p", "e", "c", "t", "e", "d", " ", "b", "e", "h", "a", "v", "i", "o", "r">>,
                           Indent \o <<"a", "s", "s", "e", "r", "t", " ", "r", "e", "s", "u", "l", "t", " ", "i", "s", " ", "n", "o", "t", " ", "N", "o", "n", "e">>,
                           Indent \o <<"#", " ", "T", "O", "D", "O", ":", " ", "A", "d", "d", " ", "s", "p", "e", "c", "i", "f", "i", "c", " ", "a", "s", "s", "e", "r", "t", "i", "o", "n", "s", " ", "f", "o", "r", " ">> \o func_name
                             \o <<" ", "f", "u", "n", "c", "t", "i", "o", "n", "a", "l", "i", "t", "y">>,
                           Indent \o <<"#", " ", "a", "s", "s", "e", "r", "t", " ", "r", "e", "s", "u", "l", "t", ".", "p", "r", "o", "p", "e", "r", "t", "y", " ", "=", "=", " ", "e", "x", "p", "e", "c", "t", "e", "d", "_", "v", "a", "l", "u", "e">>>>]

\* _generate_error_test
ErrorTest(func_name, params) ==
  LET invalid == IF params # <<>>
                 THEN <<Indent \o <<"#", " ", "T", "e", "s", "t", " ", "w", "i", "t", "h", " ", "i", "n", "v", "a", "l", "i", "d", " ">> \o params[1].name,
                        Indent \o <<"w", "i", "t", "h", " ", "p", "y", "t", "e", "s", "t", ".", "r", "a", "i", "s", "e", "s", "(", "(", "V", "a", "l", "u", "e", "E", "r", "r", "o", "r", ",", " ", "T", "y", "p", "e", "E", "r", "r", "o", "r", ",", " ", "K", "e", "y", "E", "r", "r", "o", "r", ")", ")", ":">>,
                        Indent \o <<" ", " ", " ", " ">> \o func_name \o <<"(", "i", "n", "v", "a", "l", "i", "d", "_", "v", "a", "l", "u", "e", ")">>>>
                 ELSE <<>>
      missing == IF Len(params) > 1
                 THEN <<Indent \o <<"#", " ", "T", "e", "s", "t", " ", "w", "i", "t", "h", " ", "m", "i", "s", "s", "i", "n", "g", " ", "r", "e", "q", "u", "i", "r", "e", "d", " ", "p", "a", "r", "a", "m", "e", "t", "e", "r", "s">>,
                        Indent \o <<"w", "i", "t", "h", " ", "p", "y", "t", "e", "s", "t", ".", "r", "a", "i", "s", "e", "s", "(", "(", "T", "y", "p", "e", "E", "r", "r", "o", "r", ",", " ", "V", "a", "l", "u", "e", "E", "r", "r", "o", "r", ")", ")", ":">>,
                        Indent \o <<" ", " ", " ", " ">> \o func_name \o <<"(", ")", " ", " ", "#", " ", "M", "i", "s", "s", "i", "n", "g", " ", "r", "e", "q", "u", "i", "r", "e", "d", " ", "p", "a", "r", "a", "m", "e", "t", "e", "r", "s">>>>
                 ELSE <<>>
      none == IF params # <<>>
              THEN <<Indent \o <<"#", " ", "T", "e", "s", "t", " ", "w", "i", "t", "h", " ", "N", "o", "n", "e", " ", "v", "a", "l", "u", "e", "s">>,
                     Indent \o <<"w", "i", "t", "h", " ", "p", "y", "t", "e", "s", "t", ".", "r", "a", "i", "s", "e", "s", "(", "(", "V", "a", "l", "u", "e", "E", "r", "r", "o", "r", ",", " ", "A", "t", "t", "r", "i", "b", "u", "t", "e", "E", "r", "r", "o", "r", ",", " ", "T", "y", "p", "e", "E", "r", "r", "o", "r", ")", ")", ":">>,
                     Indent \o <<" ", " ", " ", " ">> \o func_name \o <<"(", "N", "o", "n", "e", ")">>>>
              ELSE <<>>
      error_tests == invalid \o missing \o none
  IN  IF error_tests = <<>>
      THEN <<Indent \o <<"#", " ", "T", "O", "D", "O", ":", " ", "A", "d", "d", " ", "s", "p", "e", "c", "i", "f", "i", "c", " ", "e", "r", "r", "o", "r", " ", "s", "c", "e", "n", "a", "r", "i", "o", "s", " ", "f", "o", "r", " ">> \o func_name,
             Indent \o <<"#", " ", "C", "o", "n", "s", "i", "d", "e", "r", " ", "t", "e", "s", "t", "i", "n", "g", ":">>,
             Indent \o <<"#", " ", "-", " ", "I", "n", "v", "a", "l", "i", "d", " ", "i", "n", "p", "u", "t", " ", "p", "a", "r", "a", "m", "e", "t", "e", "r", "s">>,
             Indent \o <<"#", " ", "-", " ", "M", "i", "s", "s", "i", "n", "g", " ", "r", "e", "q", "u", "i", "r", "e", "d", " ", "d", "a", "t", "a">>,
             Indent \o <<"#", " ", "-", " ", "N", "e", "t", "w", "o", "r", "k", " ", "f", "a", "i", "l", "u", "r", "e", "s">>,
             Indent \o <<"#", " ", "-", " ", "D", "a", "t", "a", "b", "a", "s", "e", " ", "e", "r", "r", "o", "r", "s">>,
             Indent \o <<"#", " ", "-", " ", "P", "e", "r", "m", "i", "s", "s", "i", "o", "n", " ", "i", "s", "s", "u", "e", "s">>>>
      ELSE error_tests

\* any("list" in p.get("type", "").lower() for p in params): "True", "False",
\* or "AttributeError" at a type that is None met before a match
RECURSIVE AnyList(_)
AnyList(params) ==
  IF params = <<>> THEN "False"
  ELSE IF Head(params).type = None THEN "AttributeError"
  ELSE IF In(<<"l", "i", "s", "t">>, Lower(Head(params).type)) THEN "True"
  ELSE AnyList(Tail(params))

\* _generate_edge_case_test: [exc, lines]
EdgeCaseTest(func_name, params) ==
  IF params # <<>> /\ params[1].type = None
  THEN [exc |-> "AttributeError", lines |-> <<>>]
  ELSE LET param_type == Lower(params[1].type)
           boundary ==
             IF params = <<>> THEN <<>>
             ELSE IF In(<<"i", "n", "t">>, param_type) \/ In(<<"n", "u", "m", "b", "e", "r">>, param_type)
             THEN <<Indent \o <<"#", " ", "T", "e", "s", "t", " ", "b", "o", "u", "n", "d", "a", "r", "y", " ", "v", "a", "l", "u", "e", "s">>,
                    Indent \o <<"r", "e", "s", "u", "l", "t", "_", "z", "e", "r", "o", " ", "=", " ">> \o func_name \o <<"(", "0", ")">>,
                    Indent \o <<"r", "e", "s", "u", "l", "t", "_", "n", "e", "g", "a", "t", "i", "v", "e", " ", "=", " ">> \o func_name \o <<"(", "-", "1", ")">>,
                    Indent \o <<"r", "e", "s", "u", "l", "t", "_", "l", "a", "r", "g", "e", " ", "=", " ">> \o func_name \o <<"(", "9", "9", "9", "9", "9", "9", ")">>,
                    Indent,
                    Indent \o <<"a", "s", "s", "e", "r", "t", " ", "r", "e", "s", "u", "l", "t", "_", "z", "e", "r", "o", " ", "i", "s", " ", "n", "o", "t", " ", "N", "o", "n", "e">>,
                    Indent \o <<"a", "s", "s", "e", "r", "t", " ", "r", "e", "s", "u", "l", "t", "_", "n", "e", "g", "a", "t", "i", "v", "e", " ", "i", "s", " ", "n", "o", "t", " ", "N", "o", "n", "e">>,
                    Indent \o <<"a", "s", "s", "e", "r", "t", " ", "r", "e", "s", "u", "l", "t", "_", "l", "a", "r", "g", "e", " ", "i", "s", " ", "n", "o", "t", " ", "N", "o", "n", "e">>>>
             ELSE IF In(<<"s", "t", "r">>, param_type)
             THEN <<Indent \o <<"#", " ", "T", "e", "s", "t", " ", "s", "t", "r", "i", "n", "g", " ", "e", "d", "g", "e", " ", "c", "a", "s", "e", "s">>,
                    Indent \o <<"r", "e", "s", "u", "l", "t", "_", "e", "m", "p", "t", "y", " ", "=", " ">> \o func_name \o <<"(", "\"", "\"", ")">>,
                    Indent \o <<"r", "e", "s", "u", "l", "t", "_", "w", "h", "i", "t", "e", "s", "p", "a", "c", "e", " ", "=", " ">> \o func_name \o <<"(", "\"", " ", " ", " ", "\"", ")">>,
                    Indent \o <<"r", "e", "s", "u", "l", "t", "_", "s", "p", "e", "c", "i", "a", "l", "_", "c", "h", "a", "r", "s", " ", "=", " ">> \o func_name \o <<"(", "\"", "!", "@", "#", "$", "%", "^", "&", "*", "(", ")", "\"", ")">>,
                    Indent,
                    Indent \o <<"a", "s", "s", "e", "r", "t", " ", "r", "e", "s", "u", "l", "t", "_", "e", "m", "p", "t", "y", " ", "i", "s", " ", "n", "o", "t", " ", "N", "o", "n", "e">>,
                    Indent \o <<"a", "s", "s", "e", "r", "t", " ", "r", "e", "s", "u", "l", "t", "_", "w", "h", "i", "t", "e", "s", "p", "a", "c", "e", " ", "i", "s", " ", "n", "o", "t", " ", "N", "o", "n", "e">>,
                    Indent \o <<"a", "s", "s", "e", "r", "t", " ", "r", "e", "s", "u", "l", "t", "_", "s", "p", "e", "c", "i", "a", "l", "_", "c", "h", "a", "r", "s", " ", "i", "s", " ", "n", "o", "t", " ", "N", "o", "n", "e">>>>
             ELSE <<>>
           any == AnyList(params)
           collections ==
             IF any = "True"
             THEN <<Indent \o <<"#", " ", "T", "e", "s", "t", " ", "w", "i", "t", "h", " ", "e", "m", "p", "t", "y", " ", "c", "o", "l", "l", "e", "c", "t", "i", "o", "n", "s">>,
                    Indent \o <<"r", "e", "s", "u", "l", "t", " ", "=", " ">> \o func_name \o <<"(", "[", "]", ")">>,
                    Indent \o <<"a", "s", "s", "e", "r", "t", " ", "r", "e", "s", "u", "l", "t", " ", "i", "s", " ", "n", "o", "t", " ", "N", "o", "n", "e">>>>
             ELSE <<>>
           edge_tests == boundary \o collections
       IN  IF any = "AttributeError" THEN [exc |-> "AttributeError", lines |-> <<>>]
           ELSE [exc |-> "none",
                 lines |-> IF edge_tests = <<>>
                           THEN <<Indent \o <<"#", " ", "T", "O", "D", "O", ":", " ", "A", "d", "d", " ", "e", "d", "g", "e", " ", "c", "a", "s", "e", "s", " ", "f", "o", "r", " ">> \o func_name,
                                  Indent \o <<"#", " ", "C", "o", "n", "s", "i", "d", "e", "r", " ", "t", "e", "s", "t", "i", "n", "g", ":">>,
                                  Indent \o <<"#", " ", "-", " ", "B", "o", "u", "n", "d", "a", "r", "y", " ", "v", "a", "l", "u", "e", "s", " ", "(", "0", ",", " ", "-", "1", ",", " ", "m", "a", "x", " ", "v", "a", "l", "u", "e", "s", ")">>,
                                  Indent \o <<"#", " ", "-", " ", "E", "m", "p", "t", "y", " ", "s", "t", "r", "i", "n", "g", "s", "/", "c", "o", "l", "l", "e", "c", "t", "i", "o", "n", "s">>,
                                  Indent \o <<"#", " ", "-", " ", "S", "p", "e", "c", "i", "a", "l", " ", "c", "h", "a", "r", "a", "c", "t", "e", "r", "s">>,
                                  Indent \o <<"#", " ", "-", " ", "U", "n", "i", "c", "o", "d", "e", " ", "c", "h", "a", "r", "a", "c", "t", "e", "r", "s">>,
                                  Indent \o <<"#", " ", "-", " ", "V", "e", "r", "y", " ", "l", "a", "r", "g", "e", " ", "i", "n", "p", "u", "t", "s">>>>
                           ELSE edge_tests]


\* _generate_function_tests: [exc, stubs]; the three generators run in
\* order, and the first one that raises ends the call
GenerateFunctionTests(func_info, config) ==
  LET func_name == func_info.name
      params == func_info.parameters
      class == <<"T", "e", "s", "t">> \o Title(func_name)
      mock == IF config.auto_generate_mocks THEN <<<<"m", "o", "c", "k", "_", "e", "x", "t", "e", "r", "n", "a", "l", "_", "s", "e", "r", "v", "i", "c", "e">>>> ELSE <<>>
      basic == BasicFunctionTest(func_name, params)
      edge == EdgeCaseTest(func_name, params)
      tests1 == <<Stub(class, <<"T", "e", "s", "t", " ", "c", "a", "s", "e", "s", " ", "f", "o", "r", " ">> \o func_name \o <<" ", "f", "u", "n", "c", "t", "i", "o", "n", ".">>,
                       <<"t", "e", "s", "t", "_">> \o func_name \o <<"_", "b", "a", "s", "i", "c", "_", "f", "u", "n", "c", "t", "i", "o", "n", "a", "l", "i", "t", "y">>,
                       <<<<"s", "e", "l", "f">>, <<"s", "a", "m", "p", "l", "e", "_", "i", "n", "p", "u", "t">>>> \o mock,
                       <<"T", "e", "s", "t", " ", "b", "a", "s", "i", "c", " ", "f", "u", "n", "c", "t", "i", "o", "n", "a", "l", "i", "t", "y", " ", "o", "f", " ">> \o func_name \o <<".">>,
                       basic.lines)>>
      tests2 == IF config.include_error_scenarios
                THEN Append(tests1,
                            Stub(class, None, <<"t", "e", "s", "t", "_">> \o func_name \o <<"_", "e", "r", "r", "o", "r", "_", "s", "c", "e", "n", "a", "r", "i", "o", "s">>,
                                 <<<<"s", "e", "l", "f">>>> \o mock,
                                 <<"T", "e", "s", "t", " ", "e", "r", "r", "o", "r", " ", "h", "a", "n", "d", "l", "i", "n", "g", " ", "i", "n", " ">> \o func_name \o <<".">>,
                                 ErrorTest(func_name, params)))
                ELSE tests1
      tests3 == IF config.include_edge_cases
                THEN Append(tests2,
                            Stub(class, None, <<"t", "e", "s", "t", "_">> \o func_name \o <<"_", "e", "d", "g", "e", "_", "c", "a", "s", "e", "s">>,
                                 <<<<"s", "e", "l", "f">>>> \o mock,
                                 <<"T", "e", "s", "t", " ", "e", "d", "g", "e", " ", "c", "a", "s", "e", "s", " ", "f", "o", "r", " ">> \o func_name \o <<".">>,
                                 edge.lines))
                ELSE tests2
  IN  IF basic.exc # "none" THEN [exc |-> basic.exc, stubs |-> <<>>]
      ELSE IF config.include_edge_cases /\ edge.exc # "none"
      THEN [exc |-> edge.exc, stubs |-> <<>>]
      ELSE [exc |-> "none", stubs |-> tests3]

\* the methods _generate_class_tests writes a test for
TestedMethods(methods) ==
  SelectSeq(methods, LAMBDA m : ~m.is_private /\ ~m.is_dunder)

\* _generate_class_tests: the stubs of one class
GenerateClassTests(class_info) ==
  LET class_name == class_info.name
      methods == TestedMethods(class_info.methods)
  IN  <<Stub(<<"T", "e", "s", "t">> \o class_name,
             <<"T", "e", "s", "t", " ", "c", "a", "s", "e", "s", " ", "f", "o", "r", " ">> \o class_name \o <<" ", "c", "l", "a", "s", "s", ".">>,
             <<"t", "e", "s", "t", "_">> \o Lower(class_name) \o <<"_", "i", "n", "s", "t", "a", "n", "t", "i", "a", "t", "i", "o", "n">>,
             <<<<"s", "e", "l", "f">>>>,
             <<"T", "e", "s", "t", " ", "b", "a", "s", "i", "c", " ", "c", "l", "a", "s", "s", " ", "i", "n", "s", "t", "a", "n", "t", "i", "a", "t", "i", "o", "n", ".">>,
             <<Indent \o <<"#", " ", "T", "O", "D", "O", ":", " ", "I", "n", "i", "t", "i", "a", "l", "i", "z", "e", " ", "w", "i", "t", "h", " ", "a", "p", "p", "r", "o", "p", "r", "i", "a", "t", "e", " ", "p", "a", "r", "a", "m", "e", "t", "e", "r", "s">>,
               Indent \o <<"i", "n", "s", "t", "a", "n", "c", "e", " ", "=", " ">> \o class_name \o <<"(", ")">>,
               Indent \o <<"a", "s", "s", "e", "r", "t", " ", "i", "n", "s", "t", "a", "n", "c", "e", " ", "i", "s", " ", "n", "o", "t", " ", "N", "o", "n", "e">>,
               Indent \o <<"a", "s", "s", "e", "r", "t", " ", "i", "s", "i", "n", "s", "t", "a", "n", "c", "e", "(", "i", "n", "s", "t", "a", "n", "c", "e", ",", " ">> \o class_name \o <<")">>>>)>>
      \o [i \in 1..Len(methods) |->
            Stub(<<"T", "e", "s", "t">> \o class_name, None,
                 <<"t", "e", "s", "t", "_">> \o methods[i].name,
                 <<<<"s", "e", "l", "f">>>>,
                 <<"T", "e", "s", "t", " ">> \o methods[i].name \o <<" ", "m", "e", "t", "h", "o", "d", ".">>,
                 <<Indent \o <<"#", " ", "T", "O", "D", "O", ":", " ", "S", "e", "t", " ", "u", "p", " ", "t", "e", "s", "t", " ", "i", "n", "s", "t", "a", "n", "c", "e", " ", "a", "n", "d", " ", "m", "e", "t", "h", "o", "d", " ", "p", "a", "r", "a", "m", "e", "t", "e", "r", "s">>,
                   Indent \o <<"i", "n", "s", "t", "a", "n", "c", "e", " ", "=", " ">> \o class_name \o <<"(", ")">>,
                   Indent \o <<"r", "e", "s", "u", "l", "t", " ", "=", " ", "i", "n", "s", "t", "a", "n", "c", "e", ".">> \o methods[i].name \o <<"(", ")">>,
                   Indent,
                   Indent \o <<"#", " ", "A", "d", "d", " ", "a", "s", "s", "e", "r", "t", "i", "o", "n", "s", " ", "b", "a", "s", "e", "d", " ", "o", "n", " ", "e", "x", "p", "e", "c", "t", "e", "d", " ", "b", "e", "h", "a", "v", "i", "o", "r">>,
                   Indent \o <<"a", "s", "s", "e", "r", "t", " ", "r", "e", "s", "u", "l", "t", " ", "i", "s", " ", "n", "o", "t", " ", "N", "o", "n", "e">>,
                   Indent \o <<"#", " ", "a", "s", "s", "e", "r", "t", " ", "r", "e", "s", "u", "l", "t", ".", "p", "r", "o", "p", "e", "r", "t", "y", " ", "=", "=", " ", "e", "x", "p", "e", "c", "t", "e", "d", "_", "v", "a", "l", "u", "e">>>>)]

\* _generate_fixtures: the names of the fixtures written
GenerateFixtures(config) ==
  <<<<"s", "a", "m", "p", "l", "e", "_", "i", "n", "p", "u", "t">>>>
  \o (IF config.auto_generate_mocks THEN <<<<"m", "o", "c", "k", "_", "e", "x", "t", "e", "r", "n", "a", "l", "_", "s", "e", "r", "v", "i", "c", "e">>>> ELSE <<>>)
  \o <<<<"m", "o", "c", "k", "_", "d", "a", "t", "a", "b", "a", "s", "e">>, <<"m", "o", "c", "k", "_", "l", "o", "g", "g", "e", "r">>, <<"t", "e", "m", "p", "_", "f", "i", "l", "e">>>>

\* the loop over functions of generate_unit_test_template: [exc, stubs]
RECURSIVE FunctionTestsLoop(_, _, _)
FunctionTestsLoop(functions, config, stubs) ==
  IF functions = <<>> THEN [exc |-> "none", stubs |-> stubs]
  ELSE IF Head(functions).is_private
  THEN FunctionTestsLoop(Tail(functions), config, stubs)
  ELSE LET r == GenerateFunctionTests(Head(functions), config)
       IN  IF r.exc # "none" THEN [exc |-> r.exc, stubs |-> <<>>]
           ELSE FunctionTestsLoop(Tail(functions), config, stubs \o r.stubs)

\* the loop over classes of generate_unit_test_template
RECURSIVE ClassTestsLoop(_)
ClassTestsLoop(classes) ==
  IF classes = <<>> THEN <<>>
  ELSE IF Head(classes).is_private THEN ClassTestsLoop(Tail(classes))
  ELSE GenerateClassTests(Head(classes)) \o ClassTestsLoop(Tail(classes))

NamesOf(infos) == [i \in 1..Len(infos) |-> infos[i].name]

\* generate_unit_test_template: [exc, template]
GenerateUnitTestTemplate(module_info, config) ==
  LET functions == module_info.functions
      classes == module_info.classes
      function_names == NamesOf(SelectSeq(functions, LAMBDA f : ~f.is_private))
      class_names == NamesOf(SelectSeq(classes, LAMBDA c : ~c.is_private))
      function_tests == FunctionTestsLoop(functions, config, <<>>)
  IN  IF function_tests.exc # "none"
      THEN [exc |-> function_tests.exc, template |-> None]
      ELSE [exc |-> "none",
            template |->
              [module_name |-> module_info.name,
               import_path |-> module_info.import_path,
               imports |-> function_names \o class_names,
               fixtures |-> GenerateFixtures(config),
               stubs |-> function_tests.stubs \o ClassTestsLoop(classes)]]

-----------------------------------------------------------------------------
(* test_creation_framework: the source modules and settings tried.         *)

MaxParams == 4
MaxMethods == 2

ParamNames == <<<<"a">>, <<"b">>, <<"c">>, <<"d">>, <<"e">>, <<"f">>>>

\* annotations as ast.parse gives them: int, float, bool, str, list, dict,
\* List[int], Dict[str, int] (its slice a Tuple), typing.List, "Foo",
\* int | None, Decimal, none at all
Annotations ==
  <<Name(<<"i", "n", "t">>), Name(<<"f", "l", "o", "a", "t">>), NoAnnotation, Name(<<"b", "o", "o", "l">>), Name(<<"s", "t", "r">>),
    Subscript(Name(<<"L", "i", "s", "t">>), Name(<<"i", "n", "t">>)), Name(<<"l", "i", "s", "t">>), Name(<<"d", "i", "c", "t">>),
    Subscript(Name(<<"D", "i", "c", "t">>), TupleNode), Attribute(Name(<<"t", "y", "p", "i", "n", "g">>), <<"L", "i", "s", "t">>),
    Constant(<<"F", "o", "o">>), BinOp, Name(<<"D", "e", "c", "i", "m", "a", "l">>)>>

\* n parameters a, b, ... annotated with n annotations in a row, from the r-th on
ParamsFrom(r, n) ==
  [k \in 1..n |-> Arg(ParamNames[k], Annotations[((r + k - 2) % Len(Annotations)) + 1])]

ParamLists == {ParamsFrom(r, n) : r \in 1..Len(Annotations), n \in 0..MaxParams}

Self == Arg(<<"s", "e", "l", "f">>, NoAnnotation)

ClassItems ==
  {FunctionDef(<<"r", "u", "n">>, <<Self>>), FunctionDef(<<"_", "h", "i", "d">>, <<Self>>),
   FunctionDef(<<"_", "_", "i", "n", "i", "t", "_", "_">>, <<Self, Arg(<<"x">>, Name(<<"i", "n", "t">>))>>),
   FunctionDef(<<"_", "_", "s", "t", "r", "_", "_">>, <<Self>>), AsyncFunctionDef(<<"f", "e", "t", "c", "h">>)}

ClassBodies == UNION {[1..n -> ClassItems] : n \in 0..MaxMethods}

\* the bodies of the modules: one function; one class; a function and a
\* class; a class with a class-level assignment; imports, constants and
\* private definitions next to public ones
ModuleBodies ==
  {<<FunctionDef(<<"a", "d", "d">>, ps)>> : ps \in ParamLists}
  \cup {<<ClassDef(c, b)>> : c \in {<<"C", "a", "l", "c">>, <<"_", "I", "m", "p", "l">>}, b \in ClassBodies}
  \cup {<<FunctionDef(f, ParamsFrom(r, 2)), ClassDef(<<"C", "a", "l", "c">>, <<FunctionDef(<<"r", "u", "n">>, <<Self>>)>>)>> :
          f \in {<<"a", "d", "d">>, <<"_", "a", "u", "x">>}, r \in 1..3}
  \cup {<<ClassDef(<<"C", "a", "l", "c">>, <<FunctionDef(<<"r", "u", "n">>, <<Self>>), Assign(<<"l", "i", "m", "i", "t">>)>>)>>,
        <<Import(<<"o", "s">>), Assign(<<"M", "A", "X">>), Assign(<<"l", "o", "w">>),
          FunctionDef(<<"m", "y", "_", "f", "u", "n", "c">>, ParamsFrom(4, 1)), FunctionDef(<<"_", "a", "u", "x">>, ParamsFrom(3, 1)),
          ClassDef(<<"_", "I", "m", "p", "l">>, <<FunctionDef(<<"r", "u", "n">>, <<Self>>)>>),
          ClassDef(<<"C", "a", "l", "c">>, <<FunctionDef(<<"_", "_", "i", "n", "i", "t", "_", "_">>, <<Self>>), FunctionDef(<<"r", "u", "n">>, <<Self>>)>>)>>}

\* the file at module_file: absent, not parsable, or parsed into a body
ModuleFiles ==
  {[exists |-> FALSE, ok |-> FALSE, tree |-> <<>>],
   [exists |-> TRUE, ok |-> FALSE, tree |-> <<>>]}
  \cup {[exists |-> TRUE, ok |-> TRUE, tree |-> b] : b \in ModuleBodies}

DefaultCreationConfig == TestCreationConfig(TRUE, TRUE, TRUE)

CreationConfigs ==
  {DefaultCreationConfig, TestCreationConfig(FALSE, FALSE, FALSE),
   TestCreationConfig(TRUE, FALSE, FALSE)}

\* module_path, the argument of create_unit_tests
ModulePath == <<<<"s", "r", "c">>, <<"c", "a", "l", "c", ".", "p", "y">>>>

-----------------------------------------------------------------------------
(* State. *)

VARIABLES
  config,        \* self.config
  fs,            \* the files below the project root: path -> content
  pc,            \* the statement analyze_project / analyze_test_file is at
  test_files,    \* analyze_project: test_files
  idx,           \* analyze_project: position of the for loop (1-based)
  all_metrics,   \* analyze_project: all_metrics
  all_issues,    \* analyze_project: all_issues
  bound,         \* analyze_test_file: the locals assigned so far
  tree,          \* analyze_test_file: tree
  metrics,       \* analyze_test_file: metrics
  issues,        \* analyze_test_file: issues
  passes,        \* analyze_test_file: the passes run, each [pass, exc, visited, total]
  result,        \* what analyze_test_file returned: [metrics, issues]
  exc,           \* the exception being raised ("none": none)
  report,        \* what analyze_project returned
  saved,         \* the report file at output_path
  output_path,   \* analyze_project: whether output_path is given (None: FALSE)
  creation_config, \* TestCreationFramework: self.config
  module_src,    \* the file at module_file
  cpc,           \* the statement create_unit_tests is at
  module_info,   \* create_unit_tests: module_info
  test_content,  \* create_unit_tests: test_content
  test_file,     \* the test file at output_path
  cexc,          \* the exception create_unit_tests is raising ("none": none)
  created,       \* what create_unit_tests returned
  disk,          \* _save_report: the file at the report path, [content, writer]
  writers,       \* _save_report: the runs saving to that path, each [pc, pos, report]
  first_run      \* how an earlier analyze_test_file call on the same file ended

qvars == <<config, fs, pc, test_files, idx, all_metrics, all_issues, bound, tree,
           metrics, issues, passes, result, exc, report, saved, output_path>>

cvars == <<creation_config, module_src, cpc, module_info, test_content, test_file,
           cexc, created>>

svars == <<disk, writers>>

hvars == <<first_run>>

vars == <<qvars, cvars, svars, hvars>>

NoReport == [pending |-> TRUE]
NoFile == [absent |-> TRUE]
NoResult == [metrics |-> QualityMetrics, issues |-> <<>>]

\* No create_unit_tests call under way.
IdleCreate ==
  /\ creation_config = DefaultCreationConfig
  /\ module_src = [exists |-> FALSE, ok |-> FALSE, tree |-> <<>>]
  /\ cpc = "idle"
  /\ module_info = None
  /\ test_content = None
  /\ test_file = NoFile
  /\ cexc = "none"
  /\ created = NoReport

\* No earlier call.
NoRun == [pc |-> "none"]

\* Nothing saved to the shared report path, and no run saving.
IdleSave ==
  /\ disk = [content |-> <<>>, writer |-> "none"]
  /\ writers = <<>>
  /\ first_run = NoRun

\* No analyze_project call under way.
IdleValidator ==
  /\ config = DefaultConfig
  /\ fs = <<>>
  /\ pc = "idle"
  /\ test_files = <<>>
  /\ idx = 0
  /\ all_metrics = <<>>
  /\ all_issues = <<>>
  /\ bound = {}
  /\ tree = <<>>
  /\ metrics = QualityMetrics
  /\ issues = <<>>
  /\ passes = <<>>
  /\ result = NoResult
  /\ exc = "none"
  /\ report = NoReport
  /\ saved = NoFile
  /\ output_path = FALSE

Init ==
  /\ config \in Configs
  /\ fs \in FileSystems
  /\ pc = "start"
  /\ test_files = <<>>
  /\ idx = 0
  /\ all_metrics = <<>>
  /\ all_issues = <<>>
  /\ bound = {}
  /\ tree = <<>>
  /\ metrics = QualityMetrics
  /\ issues = <<>>
  /\ passes = <<>>
  /\ result = NoResult
  /\ exc = "none"
  /\ report = NoReport
  /\ saved = NoFile
  /\ output_path \in BOOLEAN
  /\ IdleCreate
  /\ IdleSave

\* The file the for loop of analyze_project is at.
CurrentFile == test_files[idx]

-----------------------------------------------------------------------------
(* analyze_project, up to the loop. *)

\* For contrast: a report put together although nothing was analyzed.
Mut_NoTestFilesResult ==
  [error |-> "No test files found", test_files_analyzed |-> 0, quality_grade |-> "F"]

\* return {"error": "No test files found"}
NoTestFilesResult == [error |-> "No test files found"]

Discover ==
  /\ pc = "start"
  /\ test_files' = FindTestFiles(ProjectRoot, DOMAIN fs, config)
  /\ IF test_files' = <<>>
     THEN /\ report' = NoTestFilesResult
          /\ pc' = "done"
          /\ idx' = idx
     ELSE /\ report' = report
          /\ pc' = "call"
          /\ idx' = 1
  /\ all_metrics' = <<>>
  /\ all_issues' = <<>>
  /\ UNCHANGED <<config, fs, bound, tree, metrics, issues, passes, result, exc, saved, output_path, cvars, svars, hvars>>

(* analyze_test_file. *)

\* For contrast: the list of the call before used again.
Mut_NewIssues == issues

\* issues = []
NewIssues == <<>>

\* open, read, ast.parse, metrics = QualityMetrics(), issues = []
ReadAndParse ==
  /\ pc = "call"
  /\ passes' = <<>>
  /\ result' = NoResult
  /\ IF fs[CurrentFile].ok
     THEN /\ tree' = fs[CurrentFile].tree
          /\ metrics' = QualityMetrics
          /\ issues' = NewIssues
          /\ bound' = {"f", "content", "tree", "metrics", "issues"}
          /\ exc' = "none"
          /\ pc' = "structure"
     ELSE /\ tree' = <<>>
          /\ metrics' = QualityMetrics
          /\ issues' = <<>>
          /\ bound' = {"f", "content"}
          /\ exc' = "SyntaxError"
          /\ pc' = "except"
  /\ UNCHANGED <<config, fs, test_files, idx, all_metrics, all_issues, report, saved, output_path, cvars, svars, hvars>>

\* One pass of the try block: its effect on metrics and issues, and where
\* control goes: the next statement, or the except clause.
RunPass(name, r, next) ==
  /\ metrics' = r.metrics
  /\ issues' = r.issues
  /\ passes' = Append(passes, [pass |-> name, exc |-> r.exc, visited |-> r.visited,
                               total |-> r.total])
  /\ exc' = r.exc
  /\ pc' = IF r.exc = "none" THEN next ELSE "except"
  /\ UNCHANGED <<config, fs, test_files, idx, all_metrics, all_issues, bound, tree,
                 result, report, saved, output_path, cvars, svars, hvars>>

StructurePass ==
  /\ pc = "structure"
  /\ RunPass("structure", AnalyzeTestStructure(tree, CurrentFile, config, metrics, issues),
             "business_logic")

BusinessLogicPass ==
  /\ pc = "business_logic"
  /\ RunPass("business_logic",
             AnalyzeBusinessLogicCoverage(tree, CurrentFile, config, metrics, issues),
             "error_scenarios")

ErrorScenarioPass ==
  /\ pc = "error_scenarios"
  /\ RunPass("error_scenarios",
             AnalyzeErrorScenarios(tree, CurrentFile, config, metrics, issues),
             "mock_usage")

MockUsagePass ==
  /\ pc = "mock_usage"
  /\ RunPass("mock_usage", AnalyzeMockUsage(tree, CurrentFile, config, metrics, issues),
             "documentation")

DocumentationPass ==
  /\ pc = "documentation"
  /\ RunPass("documentation",
             AnalyzeDocumentation(tree, CurrentFile, config, metrics, issues),
             "maintainability")

MaintainabilityPass ==
  /\ pc = "maintainability"
  /\ RunPass("maintainability",
             AnalyzeMaintainability(tree, CurrentFile, config, metrics, issues),
             "score")

\* metrics.overall_quality_score = ...; return metrics, issues
ScoreAndReturn ==
  /\ pc = "score"
  /\ metrics' = [metrics EXCEPT
                   !.overall_quality_score = CalculateOverallScore(metrics, config)]
  /\ result' = [metrics |-> metrics', issues |-> issues]
  /\ pc' = "returned"
  /\ UNCHANGED <<config, fs, test_files, idx, all_metrics, all_issues, bound, tree,
                 issues, passes, exc, report, saved, output_path, cvars, svars, hvars>>

\* For contrast: the except clause returning a list of its own that holds
\* the error issue alone.
Mut_HandleException ==
  /\ pc = "except"
  /\ issues' = <<TestIssue(CurrentFile, 1, "analysis_error", "high", <<exc>>)>>
  /\ result' = [metrics |-> QualityMetrics, issues |-> issues']
  /\ exc' = "none"
  /\ pc' = "returned"
  /\ UNCHANGED <<config, fs, test_files, idx, all_metrics, all_issues, bound, tree,
                 metrics, passes, report, saved, output_path, cvars, svars, hvars>>

\* except Exception as e: issues.append(...); return QualityMetrics(), issues
\* With issues not yet assigned the append itself raises, and that
\* exception leaves analyze_test_file and analyze_project.
HandleException ==
  /\ pc = "except"
  /\ IF "issues" \in bound
     THEN /\ issues' = Append(issues, TestIssue(CurrentFile, 1, "analysis_error", "high",
                                                <<exc>>))
          /\ result' = [metrics |-> QualityMetrics, issues |-> issues']
          /\ exc' = "none"
          /\ pc' = "returned"
     ELSE /\ issues' = issues
          /\ result' = result
          /\ exc' = "UnboundLocalError"
          /\ pc' = "raised"
  /\ UNCHANGED <<config, fs, test_files, idx, all_metrics, all_issues, bound, tree,
                 metrics, passes, report, saved, output_path, cvars, svars, hvars>>

(* analyze_project, from the loop body on. *)

\* metrics.file_path = str(test_file); all_metrics.append; all_issues.extend
Collect ==
  /\ pc = "returned"
  /\ all_metrics' = Append(all_metrics, WithFilePath(result.metrics, CurrentFile))
  /\ all_issues' = all_issues \o result.issues
  /\ IF idx < Len(test_files)
     THEN idx' = idx + 1 /\ pc' = "call"
     ELSE idx' = idx /\ pc' = "report"
  /\ UNCHANGED <<config, fs, test_files, bound, tree, metrics, issues, passes, result,
                 exc, report, saved, output_path, cvars, svars, hvars>>

\* project metrics, summary, recommendations, report, _save_report, return
Report ==
  /\ pc = "report"
  /\ report' = BuildReport(ProjectRoot, test_files, all_metrics, all_issues, config)
  /\ saved' = IF output_path THEN report' ELSE saved
  /\ pc' = "done"
  /\ UNCHANGED <<config, fs, test_files, idx, all_metrics, all_issues, bound, tree,
                 metrics, issues, passes, result, exc, output_path, cvars, svars, hvars>>

Next ==
  \/ Discover
  \/ ReadAndParse
  \/ StructurePass
  \/ BusinessLogicPass
  \/ ErrorScenarioPass
  \/ MockUsagePass
  \/ DocumentationPass
  \/ MaintainabilityPass
  \/ ScoreAndReturn
  \/ HandleException
  \/ Collect
  \/ Report

Spec == Init /\ [][Next]_vars

-----------------------------------------------------------------------------
(* The analyzer's methods called one at a time, as a unit test calls them: *)
(* a pass on a parsed tree with fresh metrics and issues, or               *)
(* _calculate_overall_score on given metrics.  An exception reaches the    *)
(* caller.                                                                 *)

\* Weights as shipped, weights summing to 6, a negative weight.
ScoreConfigs ==
  {DefaultConfig,
   [DefaultConfig EXCEPT !.business_logic_weight = RInt(1), !.error_scenario_weight = RInt(1),
                         !.mock_isolation_weight = RInt(1), !.realistic_data_weight = RInt(1),
                         !.documentation_weight = RInt(1), !.maintenance_weight = RInt(1)],
   [DefaultConfig EXCEPT !.business_logic_weight = RInt(-1)]}

ScoreValues == {RInt(0), RInt(50), RInt(100)}

ScoreMetrics ==
  {[QualityMetrics EXCEPT !.business_logic_coverage = a, !.error_scenario_coverage = b,
                          !.mock_isolation_score = c, !.realistic_data_score = d,
                          !.documentation_score = e, !.maintenance_score = f] :
     a \in ScoreValues, b \in ScoreValues, c \in ScoreValues,
     d \in ScoreValues, e \in ScoreValues, f \in ScoreValues}

InitUnit ==
  /\ \/ /\ config \in Configs
        /\ tree \in Trees
        /\ metrics = QualityMetrics
     \/ /\ config \in ScoreConfigs
        /\ tree = <<>>
        /\ metrics \in ScoreMetrics
  /\ fs = [f \in {P_test_a} |-> Parsed(tree)]
  /\ pc = "unit"
  /\ test_files = <<P_test_a>>
  /\ idx = 1
  /\ all_metrics = <<>>
  /\ all_issues = <<>>
  /\ bound = {"tree", "metrics", "issues"}
  /\ issues = <<>>
  /\ passes = <<>>
  /\ result = NoResult
  /\ exc = "none"
  /\ report = NoReport
  /\ saved = NoFile
  /\ output_path = FALSE
  /\ IdleCreate
  /\ IdleSave

UnitPass(name, r) ==
  /\ pc = "unit"
  /\ metrics' = r.metrics
  /\ issues' = r.issues
  /\ passes' = Append(passes, [pass |-> name, exc |-> r.exc, visited |-> r.visited,
                               total |-> r.total])
  /\ exc' = r.exc
  /\ pc' = IF r.exc = "none" THEN "unit_done" ELSE "unit_raised"
  /\ UNCHANGED <<config, fs, test_files, idx, all_metrics, all_issues, bound, tree,
                 result, report, saved, output_path, cvars, svars, hvars>>

UnitStructure ==
  UnitPass("structure", AnalyzeTestStructure(tree, CurrentFile, config, metrics, issues))

UnitBusinessLogic ==
  UnitPass("business_logic",
           AnalyzeBusinessLogicCoverage(tree, CurrentFile, config, metrics, issues))

UnitErrorScenarios ==
  UnitPass("error_scenarios", AnalyzeErrorScenarios(tree, CurrentFile, config, metrics, issues))

UnitMockUsage ==
  UnitPass("mock_usage", AnalyzeMockUsage(tree, CurrentFile, config, metrics, issues))

UnitDocumentation ==
  UnitPass("documentation", AnalyzeDocumentation(tree, CurrentFile, config, metrics, issues))

UnitMaintainability ==
  UnitPass("maintainability",
           AnalyzeMaintainability(tree, CurrentFile, config, metrics, issues))

UnitOverallScore ==
  UnitPass("score",
           PassResult([metrics EXCEPT
                         !.overall_quality_score = CalculateOverallScore(metrics, config)],
                      issues, "none", <<>>, -1))

NextUnit ==
  \/ UnitStructure
  \/ UnitBusinessLogic
  \/ UnitErrorScenarios
  \/ UnitMockUsage
  \/ UnitDocumentation
  \/ UnitMaintainability
  \/ UnitOverallScore

SpecUnit == InitUnit /\ [][NextUnit]_vars

-----------------------------------------------------------------------------
(* The validator's report methods called one at a time on given per-file   *)
(* metrics and issues: _calculate_project_metrics, _summarize_issues,      *)
(* _calculate_quality_grade, and the statements of analyze_project that    *)
(* put the report together.                                                *)

MetricsOf(a, b, c, d, e, f, o) ==
  [QualityMetrics EXCEPT !.business_logic_coverage = a, !.error_scenario_coverage = b,
                         !.mock_isolation_score = c, !.realistic_data_score = d,
                         !.documentation_score = e, !.maintenance_score = f,
                         !.overall_quality_score = o]

Flat(v, o) == MetricsOf(v, v, v, v, v, v, o)

\* Per-file metrics: fields that differ from one another, overall scores on
\* and beside the grade thresholds, thirds, a score below zero, and fields
\* on the thresholds of the recommendations.
FileMetricsSamples ==
  {MetricsOf(RInt(10), RInt(20), RInt(30), RInt(40), RInt(50), RInt(60), RInt(95)),
   MetricsOf(RInt(70), RInt(60), RInt(70), RInt(40), RInt(70), RInt(60), RInt(75)),
   MetricsOf(RInt(90), RInt(70), RInt(50), RInt(30), RInt(10), RInt(0), RInt(65)),
   Flat(Rat(100, 3), Rat(100, 3)),
   Flat(RInt(100), RInt(100)),
   Flat(Zero, RInt(-50))}
  \cup {Flat(Zero, RInt(o)) : o \in {60, 70, 80, 90}}

\* The test files in the order _find_test_files gives them.
PathsInOrder == <<P_b_test, P_test_a, P_both>>

MetricLists ==
  UNION {{[k \in 1..n |-> WithFilePath(ms[k], PathsInOrder[k])] :
            ms \in [1..n -> FileMetricsSamples]} : n \in 1..MaxFiles}

\* Issues of the analyzer's types and severities, and of others.
IssueSamples ==
  {TestIssue(P_test_a, 1, "test_too_short", "medium", <<>>),
   TestIssue(P_b_test, 1, "test_too_short", "medium", <<>>),
   TestIssue(P_test_a, 1, "analysis_error", "high", <<>>),
   TestIssue(P_b_test, 3, "missing_documentation", "low", <<>>),
   TestIssue(P_test_a, 2, "flaky", "critical", <<>>),
   TestIssue(P_b_test, 2, "note", "info", <<>>)}

IssueLists == UNION {[1..n -> IssueSamples] : n \in 0..MaxIssues}

InitReport ==
  /\ \/ all_metrics \in MetricLists /\ all_issues = <<>>
     \/ /\ all_metrics \in
             {<<WithFilePath(Flat(RInt(100), RInt(100)), PathsInOrder[1])>>,
              <<WithFilePath(Flat(RInt(10), RInt(10)), PathsInOrder[1])>>}
        /\ all_issues \in IssueLists
  /\ config = DefaultConfig
  /\ test_files = SubSeq(PathsInOrder, 1, Len(all_metrics))
  /\ fs = [f \in {test_files[k] : k \in 1..Len(test_files)} |-> Parsed(<<>>)]
  /\ idx = Len(test_files)
  /\ pc = "report_unit"
  /\ bound = {}
  /\ tree = <<>>
  /\ metrics = AsDict(all_metrics[1])
  /\ issues = <<>>
  /\ passes = <<>>
  /\ result = NoResult
  /\ exc = "none"
  /\ report = NoReport
  /\ saved = NoFile
  /\ output_path = FALSE
  /\ IdleCreate
  /\ IdleSave

UnitCall(value, next) ==
  /\ pc = "report_unit"
  /\ report' = value
  /\ pc' = next
  /\ UNCHANGED <<config, fs, test_files, idx, all_metrics, all_issues, bound, tree,
                 metrics, issues, passes, result, exc, saved, output_path, cvars, svars, hvars>>

UnitProjectMetrics ==
  UnitCall([project_metrics |-> AsDict(CalculateProjectMetrics(all_metrics))],
           "metrics_done")

UnitSummarizeIssues ==
  UnitCall([issue_summary |-> SummarizeIssues(all_issues)], "summary_done")

UnitQualityGrade ==
  UnitCall([quality_grade |-> CalculateQualityGrade(metrics.overall_quality_score)],
           "grade_done")

UnitReport ==
  UnitCall(BuildReport(ProjectRoot, test_files, all_metrics, all_issues, config),
           "report_done")

NextReport ==
  \/ UnitProjectMetrics
  \/ UnitSummarizeIssues
  \/ UnitQualityGrade
  \/ UnitReport

SpecReport == InitReport /\ [][NextReport]_vars

-----------------------------------------------------------------------------
(* create_unit_tests. *)

\* module_file = self.project_root / module_path
ModuleFile == ProjectRoot \o ModulePath

\* output_dir / f"{test_file_prefix}{module_file.stem}.py"
OutputPath(cfg) ==
  ProjectRoot \o <<cfg.output_directory,
                   cfg.test_file_prefix \o Stem(ModuleFile[Len(ModuleFile)]) \o <<".", "p", "y">>>>

InitCreate ==
  /\ IdleValidator
  /\ IdleSave
  /\ creation_config \in CreationConfigs
  /\ module_src \in ModuleFiles
  /\ cpc = "create"
  /\ module_info = None
  /\ test_content = None
  /\ test_file = NoFile
  /\ cexc = "none"
  /\ created = NoReport

\* if not module_file.exists(): return {"error": ...}
CreateNotFound ==
  /\ cpc = "create"
  /\ ~module_src.exists
  /\ created' = [error |-> <<"M", "o", "d", "u", "l", "e", " ", "f", "i", "l", "e", " ", "n", "o", "t", " ", "f", "o", "u", "n", "d", ":", " ">> \o JoinWith(<<"/">>, ModulePath)]
  /\ cpc' = "returned"
  /\ UNCHANGED <<qvars, svars, hvars, creation_config, module_src, module_info, test_content, test_file, cexc>>

\* module_info = ModuleAnalyzer.analyze_module(module_file)
CreateAnalyze ==
  /\ cpc = "create"
  /\ module_src.exists
  /\ module_info' = AnalyzeModule(ModuleFile, module_src)
  /\ cpc' = "analyzed"
  /\ UNCHANGED <<qvars, svars, hvars, creation_config, module_src, test_content, test_file, cexc, created>>

\* if "error" in module_info: return {"error": ...}
CreateFailed ==
  /\ cpc = "analyzed"
  /\ "error" \in DOMAIN module_info
  /\ created' = [error |-> <<"F", "a", "i", "l", "e", "d", " ", "t", "o", " ", "a", "n", "a", "l", "y", "z", "e", " ", "m", "o", "d", "u", "l", "e", ":", " ">>, detail |-> module_info.error]
  /\ cpc' = "returned"
  /\ UNCHANGED <<qvars, svars, hvars, creation_config, module_src, module_info, test_content, test_file, cexc>>

\* test_content = TestTemplate.generate_unit_test_template(module_info, self.config)
CreateGenerate ==
  /\ cpc = "analyzed"
  /\ "error" \notin DOMAIN module_info
  /\ LET r == GenerateUnitTestTemplate(module_info, creation_config)
     IN  /\ test_content' = r.template
         /\ cexc' = r.exc
         /\ cpc' = IF r.exc = "none" THEN "generated" ELSE "raised"
  /\ UNCHANGED <<qvars, svars, hvars, creation_config, module_src, module_info, test_file, created>>

\* the test file written at output_path
CreateWrite ==
  /\ cpc = "generated"
  /\ test_file' = [path |-> OutputPath(creation_config), content |-> test_content]
  /\ cpc' = "written"
  /\ UNCHANGED <<qvars, svars, hvars, creation_config, module_src, module_info, test_content, cexc, created>>

(* The written file as the quality analysis reads it back.  The decorator *)
(* lines of the fixtures are left out of the tree.                         *)

\* A line that holds no statement: blank, or a comment.
IsFiller(line) == LStrip(line) = <<>> \/ StartsWith(LStrip(line), <<"#">>)

\* The node of one line: none, an assert statement, a statement that holds
\* a call, or another statement.
StatementOf(line) ==
  Stmt(IF IsFiller(line) THEN "Filler"
       ELSE IF StartsWith(LStrip(line), <<"a", "s", "s", "e", "r", "t", " ">>) THEN "Assert"
       ELSE IF In(<<"(">>, line) THEN "Call"
       ELSE "Other",
       line)

\* A body ends with its last statement: the comments after it are outside
\* the node.
RECURSIVE UpToLastStatement(_)
UpToLastStatement(lines) ==
  IF lines # <<>> /\ IsFiller(lines[Len(lines)])
  THEN UpToLastStatement(SubSeq(lines, 1, Len(lines) - 1))
  ELSE lines

TestNode(kind, name, parent, args, doc, lines) ==
  [kind |-> kind, name |-> name, parent |-> parent, args |-> args, doc |-> doc,
   body |-> [k \in 1..Len(UpToLastStatement(lines)) |->
               StatementOf(UpToLastStatement(lines)[k])]]

\* the text _generate_fixtures writes for a fixture, past its def line
FixtureText(name) ==
  CASE name = <<"s", "a", "m", "p", "l", "e", "_", "i", "n", "p", "u", "t">> ->
         [args |-> <<"(", ")", ":">>, doc |-> <<"S", "a", "m", "p", "l", "e", " ", "i", "n", "p", "u", "t", " ", "d", "a", "t", "a", " ", "f", "o", "r", " ", "t", "e", "s", "t", "i", "n", "g", ".">>,
          lines |-> <<<<" ", " ", " ", " ", "r", "e", "t", "u", "r", "n", " ", "{">>,
                      <<" ", " ", " ", " ", " ", " ", " ", " ", "\"", "v", "a", "l", "i", "d", "_", "d", "a", "t", "a", "\"", ":", " ", "{", "\"", "k", "e", "y", "\"", ":", " ", "\"", "v", "a", "l", "u", "e", "\"", "}", ",">>,
                      <<" ", " ", " ", " ", " ", " ", " ", " ", "\"", "i", "n", "v", "a", "l", "i", "d", "_", "d", "a", "t", "a", "\"", ":", " ", "{", "}", ",">>,
                      <<" ", " ", " ", " ", " ", " ", " ", " ", "\"", "e", "d", "g", "e", "_", "c", "a", "s", "e", "_", "d", "a", "t", "a", "\"", ":", " ", "{", "\"", "k", "e", "y", "\"", ":", " ", "N", "o", "n", "e", "}">>,
                      <<" ", " ", " ", " ", "}">>>>]
    [] name = <<"m", "o", "c", "k", "_", "e", "x", "t", "e", "r", "n", "a", "l", "_", "s", "e", "r", "v", "i", "c", "e">> ->
         [args |-> <<"(", ")", ":">>, doc |-> <<"M", "o", "c", "k", " ", "e", "x", "t", "e", "r", "n", "a", "l", " ", "s", "e", "r", "v", "i", "c", "e", " ", "f", "o", "r", " ", "t", "e", "s", "t", "i", "n", "g", ".">>,
          lines |-> <<<<" ", " ", " ", " ", "w", "i", "t", "h", " ", "p", "a", "t", "c", "h", "(", "'", "r", "e", "q", "u", "e", "s", "t", "s", ".", "g", "e", "t", "'", ")", " ", "a", "s", " ", "m", "o", "c", "k", "_", "g", "e", "t", ":">>,
                      <<" ", " ", " ", " ", " ", " ", " ", " ", "m", "o", "c", "k", "_", "g", "e", "t", ".", "r", "e", "t", "u", "r", "n", "_", "v", "a", "l", "u", "e", ".", "j", "s", "o", "n", ".", "r", "e", "t", "u", "r", "n", "_", "v", "a", "l", "u", "e", " ", "=", " ", "{", "\"", "s", "t", "a", "t", "u", "s", "\"", ":", " ", "\"", "s", "u", "c", "c", "e", "s", "s", "\"", "}">>,
                      <<" ", " ", " ", " ", " ", " ", " ", " ", "y", "i", "e", "l", "d", " ", "m", "o", "c", "k", "_", "g", "e", "t">>>>]
    [] name = <<"m", "o", "c", "k", "_", "d", "a", "t", "a", "b", "a", "s", "e">> ->
         [args |-> <<"(", ")", ":">>, doc |-> <<"M", "o", "c", "k", " ", "d", "a", "t", "a", "b", "a", "s", "e", " ", "c", "o", "n", "n", "e", "c", "t", "i", "o", "n", " ", "f", "o", "r", " ", "t", "e", "s", "t", "i", "n", "g", ".">>,
          lines |-> <<<<" ", " ", " ", " ", "w", "i", "t", "h", " ", "p", "a", "t", "c", "h", "(", "'", "s", "q", "l", "i", "t", "e", "3", ".", "c", "o", "n", "n", "e", "c", "t", "'", ")", " ", "a", "s", " ", "m", "o", "c", "k", "_", "c", "o", "n", "n", "e", "c", "t", ":">>,
                      <<" ", " ", " ", " ", " ", " ", " ", " ", "m", "o", "c", "k", "_", "c", "o", "n", "n", " ", "=", " ", "M", "o", "c", "k", "(", ")">>,
                      <<" ", " ", " ", " ", " ", " ", " ", " ", "m", "o", "c", "k", "_", "c", "u", "r", "s", "o", "r", " ", "=", " ", "M", "o", "c", "k", "(", ")">>,
                      <<" ", " ", " ", " ", " ", " ", " ", " ", "m", "o", "c", "k", "_", "c", "o", "n", "n", "e", "c", "t", ".", "r", "e", "t", "u", "r", "n", "_", "v", "a", "l", "u", "e", " ", "=", " ", "m", "o", "c", "k", "_", "c", "o", "n", "n">>,
                      <<" ", " ", " ", " ", " ", " ", " ", " ", "m", "o", "c", "k", "_", "c", "o", "n", "n", ".", "c", "u", "r", "s", "o", "r", ".", "r", "e", "t", "u", "r", "n", "_", "v", "a", "l", "u", "e", " ", "=", " ", "m", "o", "c", "k", "_", "c", "u", "r", "s", "o", "r">>,
                      <<" ", " ", " ", " ", " ", " ", " ", " ", "y", "i", "e", "l", "d", " ", "m", "o", "c", "k", "_", "c", "u", "r", "s", "o", "r">>>>]
    [] name = <<"m", "o", "c", "k", "_", "l", "o", "g", "g", "e", "r">> ->
         [args |-> <<"(", ")", ":">>, doc |-> <<"M", "o", "c", "k", " ", "l", "o", "g", "g", "e", "r", " ", "f", "o", "r", " ", "t", "e", "s", "t", "i", "n", "g", ".">>,
          lines |-> <<<<" ", " ", " ", " ", "w", "i", "t", "h", " ", "p", "a", "t", "c", "h", "(", "'", "l", "o", "g", "g", "i", "n", "g", ".", "g", "e", "t", "L", "o", "g", "g", "e", "r", "'", ")", " ", "a", "s", " ", "m", "o", "c", "k", "_", "g", "e", "t", "_", "l", "o", "g", "g", "e", "r", ":">>,
                      <<" ", " ", " ", " ", " ", " ", " ", " ", "m", "o", "c", "k", "_", "l", "o", "g", "g", "e", "r", " ", "=", " ", "M", "o", "c", "k", "(", ")">>,
                      <<" ", " ", " ", " ", " ", " ", " ", " ", "m", "o", "c", "k", "_", "g", "e", "t", "_", "l", "o", "g", "g", "e", "r", ".", "r", "e", "t", "u", "r", "n", "_", "v", "a", "l", "u", "e", " ", "=", " ", "m", "o", "c", "k", "_", "l", "o", "g", "g", "e", "r">>,
                      <<" ", " ", " ", " ", " ", " ", " ", " ", "y", "i", "e", "l", "d", " ", "m", "o", "c", "k", "_", "l", "o", "g", "g", "e", "r">>>>]
    [] OTHER ->
         [args |-> <<"(", "t", "m", "p", "_", "p", "a", "t", "h", ")", ":">>, doc |-> <<"T", "e", "m", "p", "o", "r", "a", "r", "y", " ", "f", "i", "l", "e", " ", "f", "i", "x", "t", "u", "r", "e", " ", "f", "o", "r", " ", "t", "e", "s", "t", "i", "n", "g", ".">>,
          lines |-> <<<<" ", " ", " ", " ", "f", "i", "l", "e", "_", "p", "a", "t", "h", " ", "=", " ", "t", "m", "p", "_", "p", "a", "t", "h", " ", "/", " ", "\"", "t", "e", "s", "t", "_", "f", "i", "l", "e", ".", "t", "x", "t", "\"">>,
                      <<" ", " ", " ", " ", "f", "i", "l", "e", "_", "p", "a", "t", "h", ".", "w", "r", "i", "t", "e", "_", "t", "e", "x", "t", "(", "\"", "t", "e", "s", "t", " ", "c", "o", "n", "t", "e", "n", "t", "\"", ")">>,
                      <<" ", " ", " ", " ", "r", "e", "t", "u", "r", "n", " ", "f", "i", "l", "e", "_", "p", "a", "t", "h">>>>]

FixtureNode(name) ==
  LET text == FixtureText(name)
  IN  TestNode("FunctionDef", name, 0, text.args, text.doc, text.lines)

\* The class and method nodes of the stubs: n nodes precede them, and class
\* is the index of the class the next method without a class line is in.
RECURSIVE StubNodes(_, _, _)
StubNodes(stubs, n, class) ==
  IF stubs = <<>> THEN <<>>
  ELSE LET stub == Head(stubs)
           args == <<"(">> \o JoinWith(<<",", " ">>, stub.args) \o <<")", ":">>
       IN  IF stub.header # None
           THEN <<[kind |-> "ClassDef", name |-> stub.class, parent |-> 0,
                   doc |-> stub.header, body |-> <<>>],
                  TestNode("FunctionDef", stub.name, n + 1, args, stub.doc, stub.body)>>
                \o StubNodes(Tail(stubs), n + 2, n + 1)
           ELSE <<TestNode("FunctionDef", stub.name, class, args, stub.doc, stub.body)>>
                \o StubNodes(Tail(stubs), n + 1, class)

\* ast.parse of the written text.  "from <path> import " with no name after
\* it is a syntax error.
ParseGenerated(content) ==
  IF content.imports = <<>> THEN Unparsable
  ELSE Parsed([k \in 1..Len(content.fixtures) |-> FixtureNode(content.fixtures[k])]
              \o StubNodes(content.stubs, Len(content.fixtures), 0))

\* _validate_generated_test, from the outcome of analyze_project on: an
\* exception e that left it (raised), or its report
ValidateGeneratedTest(test_path, raised, e, rep) ==
  IF raised THEN [error |-> <<"V", "a", "l", "i", "d", "a", "t", "i", "o", "n", " ", "f", "a", "i", "l", "e", "d", ":", " ">>, detail |-> e]
  ELSE LET all == IF "file_metrics" \in DOMAIN rep THEN rep.file_metrics ELSE <<>>
           file_metrics ==
             SelectSeq(all, LAMBDA m : "file_path" \in DOMAIN m /\ m.file_path = test_path)
       IN  IF file_metrics # <<>>
           THEN [quality_score |-> file_metrics[1].overall_quality_score,
                 issues |-> Cardinality(DOMAIN rep.issue_summary.by_type),
                 grade |-> CalculateQualityGrade(file_metrics[1].overall_quality_score)]
           ELSE [quality_score |-> Zero, issues |-> 0, grade |-> "F"]

\* self.quality_config = TestQualityConfig()
ShippedConfig == TestQualityConfig(70, 10, 200, 1, 5)

\* self.quality_validator.analyze_project(): the validator, made with the
\* project root and TestQualityConfig(), starts on the project as it is now
CreateValidate ==
  /\ cpc = "written"
  /\ cpc' = "validating"
  /\ config' = ShippedConfig
  /\ fs' = [f \in {test_file.path, ModuleFile} |->
              IF f = test_file.path THEN ParseGenerated(test_file.content)
              ELSE Parsed(<<>>)]
  /\ pc' = "start"
  /\ output_path' = FALSE
  /\ UNCHANGED <<test_files, idx, all_metrics, all_issues, bound, tree, metrics, issues,
                 passes, result, exc, report, saved, creation_config, module_src,
                 module_info, test_content, test_file, cexc, created, svars, hvars>>

\* the dict create_unit_tests returns, or the exception of the validation
\* caught and reported in it
CreateReturn ==
  /\ cpc = "validating"
  /\ pc \in {"done", "raised"}
  /\ created' = [module_path |-> ModulePath,
                 output_path |-> test_file.path,
                 module_info |-> module_info,
                 validation |-> ValidateGeneratedTest(test_file.path, pc = "raised", exc,
                                                      report)]
  /\ cpc' = "returned"
  /\ UNCHANGED <<qvars, svars, hvars, creation_config, module_src, module_info, test_content, test_file, cexc>>

\* The steps of analyze_project are those of Next.  The two after the
\* documentation pass are not reached from here: a written file that parses
\* holds a test function.
NextCreate ==
  \/ CreateNotFound
  \/ CreateAnalyze
  \/ CreateFailed
  \/ CreateGenerate
  \/ CreateWrite
  \/ CreateValidate
  \/ Discover
  \/ ReadAndParse
  \/ StructurePass
  \/ BusinessLogicPass
  \/ ErrorScenarioPass
  \/ MockUsagePass
  \/ DocumentationPass
  \/ HandleException
  \/ Collect
  \/ Report
  \/ CreateReturn

SpecCreate == InitCreate /\ [][NextCreate]_vars

\* C30: the validation record that create_unit_tests returns describes the
\* written file: its quality_score and grade are the overall score and the
\* grade that the analysis computed for the file at output_path, and its
\* issue count is the number of issues the analysis found in that file.
C30_ValidationDescribesFile ==
  (cpc = "returned" /\ "validation" \in DOMAIN created) =>
    /\ "error" \notin DOMAIN created.validation
    /\ created.validation.quality_score = result.metrics.overall_quality_score
    /\ created.validation.grade =
         CalculateQualityGrade(result.metrics.overall_quality_score)
    /\ created.validation.issues = Len(result.issues)

-----------------------------------------------------------------------------
(* _save_report by two runs of analyze_project that were given the same    *)
(* output path.  open(output_path, 'w') truncates the file and gives the   *)
(* run a position of its own; json.dump writes the text through the file   *)
(* object, which hands it to the file piece by piece at that position;     *)
(* leaving the with block closes the file.  A run may die while its file   *)
(* is open.                                                                *)

\* json.dump(report, f, indent=2, default=str): the text as its pieces, one
\* for each top-level key, each file_metrics entry and each recommendation
Dumps(r) ==
  <<<<"project_path", r.project_path>>,
    <<"test_files_analyzed", r.test_files_analyzed>>,
    <<"project_metrics", r.project_metrics>>>>
  \o [k \in 1..Len(r.file_metrics) |-> <<"file_metrics", k, r.file_metrics[k]>>]
  \o <<<<"issue_summary", r.issue_summary>>>>
  \o [k \in 1..Len(r.recommendations) |-> <<"recommendations", k, r.recommendations[k]>>]
  \o <<<<"quality_grade", r.quality_grade>>>>

\* what a file holds where nothing was written before a later position
Hole == <<"hole">>

\* write(2) of the pieces at position pos (0-based) of the content
WriteAt(content, pos, pieces) ==
  LET end == pos + Len(pieces)
      n == IF Len(content) > end THEN Len(content) ELSE end
  IN  [i \in 1..n |->
         IF i > pos /\ i <= end THEN pieces[i - pos]
         ELSE IF i <= Len(content) THEN content[i]
         ELSE Hole]

Writers == {"first", "second"}

\* Reports of different lengths: one file and nothing to recommend; one
\* file and four recommendations; two files, five recommendations.
SavedReports ==
  {BuildReport(ProjectRoot, <<P_b_test>>,
               <<WithFilePath(Flat(RInt(100), RInt(100)), P_b_test)>>, <<>>, DefaultConfig),
   BuildReport(ProjectRoot, <<P_b_test>>,
               <<WithFilePath(Flat(RInt(10), RInt(10)), P_b_test)>>, <<>>, DefaultConfig),
   BuildReport(ProjectRoot, <<P_b_test, P_test_a>>,
               <<WithFilePath(Flat(RInt(10), RInt(10)), P_b_test),
                 WithFilePath(Flat(RInt(20), RInt(20)), P_test_a)>>,
               <<TestIssue(P_test_a, 1, "analysis_error", "high", <<>>)>>, DefaultConfig)}

InitSave ==
  /\ IdleValidator
  /\ IdleCreate
  /\ first_run = NoRun
  /\ disk = [content |-> <<>>, writer |-> "none"]
  /\ writers \in [Writers -> {[pc |-> "start", pos |-> 0, report |-> r] : r \in SavedReports}]

\* with open(output_path, 'w', encoding='utf-8') as f
SaveOpen(w) ==
  /\ writers[w].pc = "start"
  /\ disk' = [content |-> <<>>, writer |-> w]
  /\ writers' = [writers EXCEPT ![w].pc = "open"]
  /\ UNCHANGED <<qvars, cvars, hvars>>

\* json.dump(report, f, ...): the next pieces reach the file
SaveWrite(w) ==
  /\ writers[w].pc = "open"
  /\ LET text == Dumps(writers[w].report)
         pos == writers[w].pos
     IN  /\ pos < Len(text)
         /\ \E k \in 1..(Len(text) - pos) :
              /\ disk' = [content |-> WriteAt(disk.content, pos, SubSeq(text, pos + 1, pos + k)),
                          writer |-> w]
              /\ writers' = [writers EXCEPT ![w].pos = pos + k]
  /\ UNCHANGED <<qvars, cvars, hvars>>

\* the end of the with block
SaveClose(w) ==
  /\ writers[w].pc = "open"
  /\ writers[w].pos = Len(Dumps(writers[w].report))
  /\ writers' = [writers EXCEPT ![w].pc = "closed"]
  /\ UNCHANGED <<qvars, cvars, hvars, disk>>

\* the run dies with its file open
SaveCrash(w) ==
  /\ writers[w].pc = "open"
  /\ writers' = [writers EXCEPT ![w].pc = "crashed"]
  /\ UNCHANGED <<qvars, cvars, hvars, disk>>

NextSave ==
  \E w \in Writers :
    \/ SaveOpen(w)
    \/ SaveWrite(w)
    \/ SaveClose(w)
    \/ SaveCrash(w)

SpecSave == InitSave /\ [][NextSave]_vars

-----------------------------------------------------------------------------
(* analyze_test_file called twice on one file, the file and the            *)
(* configuration unchanged in between.                                     *)

InitTwice ==
  /\ config \in Configs
  /\ fs \in {[f \in {P_test_a} |-> c] : c \in {Unparsable} \cup {Parsed(t) : t \in Trees}}
  /\ pc = "call"
  /\ test_files = <<P_test_a>>
  /\ idx = 1
  /\ all_metrics = <<>>
  /\ all_issues = <<>>
  /\ bound = {}
  /\ tree = <<>>
  /\ metrics = QualityMetrics
  /\ issues = <<>>
  /\ passes = <<>>
  /\ result = NoResult
  /\ exc = "none"
  /\ report = NoReport
  /\ saved = NoFile
  /\ output_path = FALSE
  /\ IdleCreate
  /\ IdleSave

\* The first call has returned or raised; the caller keeps what it got and
\* calls analyze_test_file(file_path) again.
CallAgain ==
  /\ pc \in {"returned", "raised"}
  /\ first_run = NoRun
  /\ first_run' = [pc |-> pc, exc |-> exc, result |-> result]
  /\ pc' = "call"
  /\ UNCHANGED <<config, fs, test_files, idx, all_metrics, all_issues, bound, tree,
                 metrics, issues, passes, result, exc, report, saved, output_path, cvars,
                 disk, writers>>

NextTwice ==
  \/ ReadAndParse
  \/ StructurePass
  \/ BusinessLogicPass
  \/ ErrorScenarioPass
  \/ MockUsagePass
  \/ DocumentationPass
  \/ MaintainabilityPass
  \/ ScoreAndReturn
  \/ HandleException
  \/ CallAgain

SpecTwice == InitTwice /\ [][NextTwice]_vars

-----------------------------------------------------------------------------
(* Properties. *)

\* The test functions of a tree: the function definitions, at any depth,
\* whose name begins with test_.
TestFunctionSet(t) ==
  {i \in 1..Len(t) : t[i].kind = "FunctionDef" /\ StartsWith(t[i].name, <<"t", "e", "s", "t", "_">>)}

\* End line minus first line of definition i.
LineSpan(t, i) == EndLineno(t, i) - Lineno(t, i)

\* The assert statements in definition i, nested definitions included.
AssertStatements(t, i) ==
  SumSeq([k \in 1..Len(Subtree(t, i)) |->
            Cardinality({n \in 1..Len(t[Subtree(t, i)[k]].body) :
                           t[Subtree(t, i)[k]].body[n].node = "Assert"})])

\* The issues of one type reported at one line.
IssuesAt(iss, line, type) ==
  {k \in 1..Len(iss) : iss[k].line_number = line /\ iss[k].issue_type = type}

\* 100 * part / whole, and 0 for an empty whole.
Share(part, whole) == IF whole = 0 THEN Zero ELSE Rat(100 * part, whole)

LastPass == passes[Len(passes)]

AfterPass(name) == passes # <<>> /\ LastPass.pass = name /\ LastPass.exc = "none"

InUnitRange(x) == RLe(Zero, x) /\ RLe(x, RInt(100))

\* C1: for every weight configuration and all sub-metric values in [0, 100],
\* the overall score _calculate_overall_score computes lies in [0, 100].
C1_OverallScoreInRange ==
  (/\ pc = "unit_done"
   /\ AfterPass("score")
   /\ InUnitRange(metrics.business_logic_coverage)
   /\ InUnitRange(metrics.error_scenario_coverage)
   /\ InUnitRange(metrics.mock_isolation_score)
   /\ InUnitRange(metrics.realistic_data_score)
   /\ InUnitRange(metrics.documentation_score)
   /\ InUnitRange(metrics.maintenance_score))
  => InUnitRange(metrics.overall_quality_score)

\* C2: analyze_project never aborts because of one bad file: once it has
\* ended on a non-empty list of discovered files it has returned a report
\* whose test_files_analyzed is the number of discovered files, and every
\* unparsable file has contributed an analysis_error issue.
C2_BadFileNeverAborts ==
  (pc \in {"done", "raised"} /\ test_files # <<>>)
  => /\ pc = "done"
     /\ report.test_files_analyzed = Len(test_files)
     /\ \A k \in 1..Len(test_files) :
          ~fs[test_files[k]].ok =>
            \E n \in 1..Len(all_issues) :
              /\ all_issues[n].file_path = test_files[k]
              /\ all_issues[n].issue_type = "analysis_error"

\* C3: analyze_test_file on an unparsable file does not raise: it returns
\* all-zero metrics and exactly one issue, an analysis_error of severity high.
C3_UnparsableFileIsReported ==
  (pc \in {"returned", "raised"} /\ ~fs[CurrentFile].ok)
  => /\ pc = "returned"
     /\ result.metrics = QualityMetrics
     /\ Len(result.issues) = 1
     /\ result.issues[1].issue_type = "analysis_error"
     /\ result.issues[1].severity = "high"

\* C4: for a file that parses and has no test function the analysis runs
\* all six passes without an error, and business_logic_coverage,
\* error_scenario_coverage, mock_isolation_score, documentation_score and
\* maintenance_score are all exactly 0.
C4_NoTestsAllZero ==
  (pc = "returned" /\ fs[CurrentFile].ok /\ TestFunctionSet(tree) = {})
  => /\ Len(passes) = 6
     /\ \A k \in 1..Len(passes) : passes[k].exc = "none"
     /\ \A n \in 1..Len(result.issues) : result.issues[n].issue_type # "analysis_error"
     /\ result.metrics.business_logic_coverage = Zero
     /\ result.metrics.error_scenario_coverage = Zero
     /\ result.metrics.mock_isolation_score = Zero
     /\ result.metrics.documentation_score = Zero
     /\ result.metrics.maintenance_score = Zero

\* A file with definitions, none of them a test function, has been analyzed.
C4_Witness ==
  /\ pc = "returned"
  /\ fs[CurrentFile].ok
  /\ TestFunctionSet(tree) = {}
  /\ \E i \in 1..Len(tree) : tree[i].kind = "FunctionDef"
  /\ \E i \in 1..Len(tree) : tree[i].kind = "AsyncFunctionDef"

\* C5: documentation pass: a test function counts as documented iff it has
\* a docstring longer than 20 characters that contains test, verify, check
\* or ensure; every other test function gets one missing_documentation
\* issue of severity low; the returned documentation_score is
\* 100 * documented / total test functions.
C5_DocumentationPass ==
  (pc = "returned" /\ fs[CurrentFile].ok)
  => LET T == TestFunctionSet(tree)
         documented == {i \in T : WellDocumented(tree[i].doc)}
     IN  /\ result.metrics.documentation_score
              = Share(Cardinality(documented), Cardinality(T))
         /\ \A i \in T :
              LET found == IssuesAt(result.issues, Lineno(tree, i), "missing_documentation")
              IN  /\ Cardinality(found) = (IF i \in documented THEN 0 ELSE 1)
                  /\ \A k \in found : result.issues[k].severity = "low"

\* C6: business-logic pass: the returned business_logic_coverage is
\* 100 * (test functions whose source text contains, in any case, an
\* action-verb prefix) / (test functions), 0 when there are none, and a
\* low_business_logic_coverage issue of severity high is among the issues
\* exactly when that value is below min_business_logic_threshold.
C6_BusinessLogicPass ==
  (pc = "returned" /\ fs[CurrentFile].ok)
  => LET T == TestFunctionSet(tree)
         covering == {i \in T : CoversBusinessLogic(Segment(tree, i))}
         value == Share(Cardinality(covering), Cardinality(T))
     IN  /\ result.metrics.business_logic_coverage = value
         /\ RLt(value, config.min_business_logic_threshold)
              <=> \E n \in 1..Len(result.issues) :
                    /\ result.issues[n].issue_type = "low_business_logic_coverage"
                    /\ result.issues[n].severity = "high"

\* The name after its test_ prefix.
AfterPrefix(name) == SubSeq(name, 6, Len(name))

\* C7: maintainability pass: a test function counts as maintainable iff its
\* line span lies within [min_test_length, max_test_length] and its name
\* after the test_ prefix contains an underscore; every test function whose
\* span exceeds max_test_length gets a test_too_long issue of severity
\* medium; maintenance_score is the maintainable percentage.
C7_MaintainabilityPass ==
  (pc = "unit_done" /\ AfterPass("maintainability"))
  => LET T == TestFunctionSet(tree)
         maintainable ==
           {i \in T : /\ config.min_test_length <= LineSpan(tree, i)
                      /\ LineSpan(tree, i) <= config.max_test_length
                      /\ In(<<"_">>, AfterPrefix(tree[i].name))}
     IN  /\ metrics.maintenance_score = Share(Cardinality(maintainable), Cardinality(T))
         /\ \A i \in T :
              LineSpan(tree, i) > config.max_test_length
                => \E k \in IssuesAt(issues, Lineno(tree, i), "test_too_long") :
                     issues[k].severity = "medium"

\* C8: mock pass: with c the mock-keyword count of a test function and m the
\* ceiling, the function counts as isolated iff 0 < c <= m; if c > m one
\* too_many_mocks issue (medium) naming c is reported for it and it is not
\* counted; if c = 0 it is neither counted nor reported.
C8_MockPass ==
  (pc = "documentation" /\ AfterPass("mock_usage"))
  => LET T == TestFunctionSet(tree)
         c(i) == MockCount(Segment(tree, i))
         m == config.max_mock_objects_per_test
         isolated == {i \in T : 0 < c(i) /\ c(i) <= m}
     IN  /\ metrics.mock_isolation_score = Share(Cardinality(isolated), Cardinality(T))
         /\ \A i \in T :
              LET found == IssuesAt(issues, Lineno(tree, i), "too_many_mocks")
              IN  /\ Cardinality(found) = (IF c(i) > m THEN 1 ELSE 0)
                  /\ \A k \in found : /\ issues[k].severity = "medium"
                                      /\ issues[k].description = <<tree[i].name, c(i)>>

\* The mock pass has run on a file with one test over the ceiling and one
\* without any mock keyword.
C8_Witness ==
  /\ pc = "documentation"
  /\ AfterPass("mock_usage")
  /\ \E i \in TestFunctionSet(tree) :
       MockCount(Segment(tree, i)) > config.max_mock_objects_per_test
  /\ \E i \in TestFunctionSet(tree) : MockCount(Segment(tree, i)) = 0

\* C9: structure pass: the returned issues hold a test_too_short issue
\* (medium) for a test function iff its line span is below min_test_length,
\* and an insufficient_assertions issue (medium) for it iff the number of
\* assert statements in it, calls not counted, is below
\* min_assertions_per_test.
C9_StructurePass ==
  (pc = "returned" /\ fs[CurrentFile].ok)
  => \A i \in TestFunctionSet(tree) :
       LET short == IssuesAt(result.issues, Lineno(tree, i), "test_too_short")
           few == IssuesAt(result.issues, Lineno(tree, i), "insufficient_assertions")
       IN  /\ short # {} <=> LineSpan(tree, i) < config.min_test_length
           /\ few # {} <=> AssertStatements(tree, i) < config.min_assertions_per_test
           /\ \A k \in short \cup few : result.issues[k].severity = "medium"

\* A file was analyzed that holds a test too short, and a test whose calls,
\* were they counted, would reach the minimum of assertions.
C9_Witness ==
  /\ pc = "returned"
  /\ fs[CurrentFile].ok
  /\ \E i \in TestFunctionSet(tree) : LineSpan(tree, i) < config.min_test_length
  /\ \E i \in TestFunctionSet(tree) :
       /\ AssertStatements(tree, i) < config.min_assertions_per_test
       /\ Len(AssertOrCallNodes(tree, i)) >= config.min_assertions_per_test

C11_FileMetricsCarryPath ==
  (pc = "done" /\ test_files # <<>>)
  => /\ Len(report.file_metrics) = Len(test_files)
     /\ \A k \in 1..Len(test_files) :
          /\ "file_path" \in DOMAIN report.file_metrics[k]
          /\ report.file_metrics[k].file_path = test_files[k]
     /\ output_path => saved = report

\* The six sub-metrics and the overall score.
AggregatedFields ==
  {"business_logic_coverage", "error_scenario_coverage", "mock_isolation_score",
   "realistic_data_score", "documentation_score", "maintenance_score",
   "overall_quality_score"}

\* The sum of one field over the per-file values.
RECURSIVE FieldSum(_, _, _)
FieldSum(ms, f, n) == IF n = 0 THEN Zero ELSE RAdd(FieldSum(ms, f, n - 1), ms[n][f])

\* C12: the project aggregate of each sub-metric and of the overall score
\* is the unweighted arithmetic mean of the per-file values: the aggregate
\* times the number of files is the sum of the per-file values.
C12_AggregateIsMean ==
  pc = "metrics_done"
  => \A f \in AggregatedFields :
       RMul(report.project_metrics[f], RInt(Len(all_metrics)))
         = FieldSum(all_metrics, f, Len(all_metrics))

\* Two files with overall scores 95 and 65, and sub-metrics that differ,
\* have been aggregated: the overall score is 80.
C12_Witness ==
  /\ pc = "metrics_done"
  /\ Len(all_metrics) = 2
  /\ all_metrics[1].overall_quality_score = RInt(95)
  /\ all_metrics[2].overall_quality_score = RInt(65)
  /\ report.project_metrics.overall_quality_score = RInt(80)
  /\ report.project_metrics.business_logic_coverage = RInt(50)

\* The grade the thresholds give to a score.
IsGradeOf(g, score) ==
  /\ g \in {"A", "B", "C", "D", "F"}
  /\ g = "A" <=> RLe(RInt(90), score)
  /\ g = "B" <=> RLe(RInt(80), score) /\ RLt(score, RInt(90))
  /\ g = "C" <=> RLe(RInt(70), score) /\ RLt(score, RInt(80))
  /\ g = "D" <=> RLe(RInt(60), score) /\ RLt(score, RInt(70))
  /\ g = "F" <=> RLt(score, RInt(60))

\* C13: the grade is a total function of the score: A from 90, B from 80,
\* C from 70, D from 60, F below; and the grade in a report is the grade of
\* that report's project_metrics.overall_quality_score.
C13_GradeOfScore ==
  /\ pc = "grade_done" => IsGradeOf(report.quality_grade, metrics.overall_quality_score)
  /\ pc = "report_done"
       => IsGradeOf(report.quality_grade, report.project_metrics.overall_quality_score)

\* A report has been put together whose aggregate overall score is a
\* threshold reached only by the mean: 95 and 65 give 80 and grade B.
C13_Witness ==
  /\ pc = "report_done"
  /\ Len(all_metrics) = 2
  /\ all_metrics[1].overall_quality_score = RInt(95)
  /\ all_metrics[2].overall_quality_score = RInt(65)
  /\ report.quality_grade = "B"

\* The positions of the issues that satisfy a test.
IssuesWhere(iss, Test(_)) == {k \in 1..Len(iss) : Test(iss[k])}

RECURSIVE SumOver(_, _)
SumOver(fn, keys) ==
  IF keys = {} THEN 0
  ELSE LET k == CHOOSE x \in keys : TRUE IN fn[k] + SumOver(fn, keys \ {k})

\* C20: the summary of an issue list is exact: total_issues is its length,
\* by_severity counts the issues of each of critical, high, medium, low,
\* by_type has one key per type that occurs, with its count, and the counts
\* sum to the total, files_with_issues is the number of distinct file
\* paths, and when every severity is one the analyzer uses the four
\* severity counts sum to the total.
C20_SummaryExact ==
  pc = "summary_done"
  => LET s == report.issue_summary
         n == Len(all_issues)
     IN  /\ s.total_issues = n
         /\ DOMAIN s.by_severity = {"critical", "high", "medium", "low"}
         /\ \A sev \in DOMAIN s.by_severity :
              s.by_severity[sev]
                = Cardinality(IssuesWhere(all_issues, LAMBDA i : i.severity = sev))
         /\ DOMAIN s.by_type = {all_issues[k].issue_type : k \in 1..n}
         /\ \A ty \in DOMAIN s.by_type :
              s.by_type[ty]
                = Cardinality(IssuesWhere(all_issues, LAMBDA i : i.issue_type = ty))
         /\ SumOver(s.by_type, DOMAIN s.by_type) = n
         /\ s.files_with_issues = Cardinality({all_issues[k].file_path : k \in 1..n})
         /\ (\A k \in 1..n : all_issues[k].severity \in {"high", "medium", "low"})
              => SumOver(s.by_severity, DOMAIN s.by_severity) = n

\* Three issues have been summarized: two of one type in one file, and one
\* of a severity outside the four buckets.
C20_Witness ==
  /\ pc = "summary_done"
  /\ Len(all_issues) = 3
  /\ report.issue_summary.files_with_issues = 2
  /\ \E ty \in DOMAIN report.issue_summary.by_type : report.issue_summary.by_type[ty] = 2
  /\ \E j, k \in 1..3 : j # k /\ all_issues[j] = all_issues[k]
  /\ \E k \in 1..3 : all_issues[k].severity = "info"

\* C19: when no test file matches the patterns analyze_project returns the
\* error result alone, without metrics, issue summary or grade, and writes
\* no report file, whether or not an output path is given.
C19_NothingToAnalyze ==
  (pc = "done" /\ test_files = <<>>)
  => /\ DOMAIN report = {"error"}
     /\ report.error = "No test files found"
     /\ saved = NoFile

\* analyze_project has returned, with an output path given, on a project
\* that holds files but no test file outside the excluded directories.
C19_Witness ==
  /\ pc = "done"
  /\ test_files = <<>>
  /\ output_path
  /\ P_venv \in DOMAIN fs
  /\ P_source \in DOMAIN fs

\* C14: analyze_module raises nothing to its caller, and for a file that
\* cannot be parsed it returns a model that carries an error string and has
\* empty functions, classes, imports and constants.
C14_DegradedOnParseFailure ==
  (cpc # "create" /\ module_src.exists /\ ~module_src.ok)
  => /\ cexc = "none"
     /\ "error" \in DOMAIN module_info
     /\ module_info.error # ""
     /\ module_info.functions = <<>>
     /\ module_info.classes = <<>>
     /\ module_info.imports = <<>>
     /\ module_info.constants = <<>>

\* analyze_module has returned for a file that exists and cannot be parsed.
C14_Witness ==
  /\ cpc = "analyzed"
  /\ module_src.exists
  /\ ~module_src.ok
  /\ "error" \in DOMAIN module_info


\* The test functions of the generated text with the given name.
StubsNamed(content, name) ==
  {k \in 1..Len(content.stubs) : content.stubs[k].name = name}

\* The statements of a body that assign to the given name.
AssignmentsTo(body, name) ==
  {j \in 1..Len(body) : StartsWith(body[j], Indent \o name \o <<" ", "=", " ">>)}

\* C15: in the generated text, the basic-functionality test of a public
\* top-level function with n >= 1 parameters assigns a literal to each of
\* the n parameters exactly once, calls the function with all n of them in
\* order, and asserts that the result is not None.
C15_BasicStubCoversParameters ==
  (cpc \in {"generated", "written"})
  => \A i \in 1..Len(module_info.functions) :
       LET f == module_info.functions[i]
           n == Len(f.parameters)
           names == [k \in 1..n |-> f.parameters[k].name]
       IN  (~f.is_private /\ n >= 1)
           => \E s \in StubsNamed(test_content, <<"t", "e", "s", "t", "_">> \o f.name \o <<"_", "b", "a", "s", "i", "c", "_", "f", "u", "n", "c", "t", "i", "o", "n", "a", "l", "i", "t", "y">>) :
                LET body == test_content.stubs[s].body
                IN  /\ \A k \in 1..n : Cardinality(AssignmentsTo(body, names[k])) = 1
                    /\ \E j \in 1..Len(body) :
                          body[j] = Indent \o <<"r", "e", "s", "u", "l", "t", " ", "=", " ">> \o f.name \o <<"(">>
                                    \o JoinWith(<<",", " ">>, names) \o <<")">>
                    /\ \E j \in 1..Len(body) :
                          body[j] = Indent \o <<"a", "s", "s", "e", "r", "t", " ", "r", "e", "s", "u", "l", "t", " ", "i", "s", " ", "n", "o", "t", " ", "N", "o", "n", "e">>


\* The part of a type label before its first bracket: List of List[int].
BaseOf(label) ==
  LET bracket == {i \in 1..Len(label) : label[i] = "["}
  IN  IF bracket = {} THEN label
      ELSE SubSeq(label, 1, (CHOOSE i \in bracket : \A j \in bracket : i <= j) - 1)

\* The literal of the kind of a label, the kind read off the lowercased base:
\* the kinds and their literals in the order the generator tests them.
LiteralOfKind(label) ==
  LET base == Lower(BaseOf(label))
  IN  IF In(<<"i", "n", "t">>, base) \/ In(<<"n", "u", "m", "b", "e", "r">>, base) THEN <<"1">>
      ELSE IF In(<<"f", "l", "o", "a", "t">>, base) \/ In(<<"d", "e", "c", "i", "m", "a", "l">>, base) THEN <<"1", ".", "0">>
      ELSE IF In(<<"b", "o", "o", "l">>, base) THEN <<"T", "r", "u", "e">>
      ELSE IF In(<<"l", "i", "s", "t">>, base) \/ In(<<"a", "r", "r", "a", "y">>, base) THEN <<"[", "]">>
      ELSE IF In(<<"d", "i", "c", "t">>, base) \/ In(<<"o", "b", "j", "e", "c", "t">>, base) THEN <<"{", "}">>
      ELSE <<"'", "t", "e", "s", "t", "_", "v", "a", "l", "u", "e", "'">>

\* C16: every literal assignment of a basic-functionality test gives the
\* parameter the literal of the kind of its type label, generic labels
\* included: 1 for an integer-like label, 1.0 for a float-like one, True for
\* a boolean-like one, [] for a list-like one such as List[int], {} for a
\* dict-like one, and a placeholder string for any other.
C16_LiteralFollowsLabelKind ==
  (cpc \in {"generated", "written"})
  => \A i \in 1..Len(module_info.functions) :
       LET f == module_info.functions[i]
       IN  ~f.is_private
           => \A s \in StubsNamed(test_content, <<"t", "e", "s", "t", "_">> \o f.name \o <<"_", "b", "a", "s", "i", "c", "_", "f", "u", "n", "c", "t", "i", "o", "n", "a", "l", "i", "t", "y">>) :
                \A k \in 1..Len(f.parameters) :
                  LET p == f.parameters[k]
                      body == test_content.stubs[s].body
                  IN  \A j \in AssignmentsTo(body, p.name) :
                        body[j] = Indent \o p.name \o <<" ", "=", " ">> \o LiteralOfKind(p.type)


\* The renderings _get_node_type is said to give: the name of a bare name,
\* Owner.Member, Base[Inner], the string form of a constant, and Any.
RECURSIVE Rendering(_)
Rendering(node) ==
  CASE node.node = "Name" -> node.id
    [] node.node = "Attribute" -> Rendering(node.value) \o <<".">> \o node.attr
    [] node.node = "Subscript" ->
         Rendering(node.value) \o <<"[">> \o Rendering(node.slice) \o <<"]">>
    [] node.node = "Constant" -> node.value
    [] OTHER -> <<"A", "n", "y">>

\* The top-level functions of the parsed module, in order.
FunctionNodes == SelectSeq(module_src.tree, LAMBDA n : n.node = "FunctionDef")

\* C18: every parameter of every function of an extracted model has a type
\* label that is a string: the rendering of its annotation, or Any when the
\* annotation is absent or of no renderable kind.
C18_TypeLabelIsString ==
  (cpc # "create" /\ module_src.exists /\ "error" \notin DOMAIN module_info)
  => \A i \in 1..Len(module_info.functions) :
       \A k \in 1..Len(module_info.functions[i].parameters) :
         LET p == module_info.functions[i].parameters[k]
             annotation == FunctionNodes[i].args[k].annotation
         IN  /\ p.type # None
             /\ p.type = IF annotation = NoAnnotation THEN <<"A", "n", "y">>
                         ELSE Rendering(annotation)


\* What the generator emitted: nothing when it raised.
EmittedStubs == IF cpc = "raised" THEN <<>> ELSE test_content.stubs

EmittedImports == IF cpc = "raised" THEN <<>> ELSE test_content.imports

\* The names of the emitted test functions put in the given test class.
StubNamesIn(class) == NamesOf(SelectSeq(EmittedStubs, LAMBDA s : s.class = class))

\* C17: once the generator has been called on a model, a private class has
\* no test function, a public class has one instantiation test and one test
\* for each of its methods that is neither private nor dunder, and no other;
\* a private top-level function has no test function and is not imported.
C17_StubsForPublicOnly ==
  (cpc \in {"generated", "written", "raised"})
  => /\ \A i \in 1..Len(module_info.classes) :
          LET c == module_info.classes[i]
              tested == SelectSeq(c.methods, LAMBDA m : ~m.is_private /\ ~m.is_dunder)
          IN  StubNamesIn(<<"T", "e", "s", "t">> \o c.name) =
                IF c.is_private THEN <<>>
                ELSE <<<<"t", "e", "s", "t", "_">> \o Lower(c.name) \o <<"_", "i", "n", "s", "t", "a", "n", "t", "i", "a", "t", "i", "o", "n">>>>
                     \o [k \in 1..Len(tested) |-> <<"t", "e", "s", "t", "_">> \o tested[k].name]
     /\ \A i \in 1..Len(module_info.functions) :
          LET f == module_info.functions[i]
          IN  f.is_private
              => /\ StubNamesIn(<<"T", "e", "s", "t">> \o Title(f.name)) = <<>>
                 /\ \A k \in 1..Len(EmittedImports) : EmittedImports[k] # f.name


\* The conditions of the recommendations, in the order of their sentences.
RecommendationOrder ==
  <<"business_logic", "error_scenario", "isolation", "documentation", "priority">>

\* C21: the recommendations of a report are, in the fixed order, one for
\* each condition that holds and none for one that does not: business
\* logic coverage below its threshold, error scenario coverage below its
\* threshold, isolation below 70, documentation below 70, a high or critical
\* issue.  A metric on its threshold triggers nothing.
C21_RecommendationsFollowConditions ==
  (pc = "report_done")
  => LET m == report.project_metrics
         s == report.issue_summary.by_severity
         triggered ==
           [business_logic |->
              m.business_logic_coverage.num * config.min_business_logic_threshold.den
                < config.min_business_logic_threshold.num * m.business_logic_coverage.den,
            error_scenario |->
              m.error_scenario_coverage.num * config.min_error_scenario_threshold.den
                < config.min_error_scenario_threshold.num * m.error_scenario_coverage.den,
            isolation |-> m.mock_isolation_score.num < 70 * m.mock_isolation_score.den,
            documentation |-> m.documentation_score.num < 70 * m.documentation_score.den,
            priority |-> s.high + s.critical > 0]
         given == [k \in 1..Len(report.recommendations) |-> report.recommendations[k][1]]
     IN  given = SelectSeq(RecommendationOrder, LAMBDA c : triggered[c])

\* A report has been built from metrics that lie on all four thresholds and
\* issues none of which is high or critical: it recommends nothing.
C21_Witness ==
  /\ pc = "report_done"
  /\ report.project_metrics.business_logic_coverage = config.min_business_logic_threshold
  /\ report.project_metrics.error_scenario_coverage = config.min_error_scenario_threshold
  /\ report.project_metrics.mock_isolation_score = RInt(70)
  /\ report.project_metrics.documentation_score = RInt(70)
  /\ report.recommendations = <<>>


\* C22: the import path of the module create_unit_tests is called for is
\* its module path without the suffix and without a leading src, lib or app,
\* joined with dots (calc for src/calc.py), in the extracted model and in
\* the import line of the generated test, whatever the project root.
C22_ImportPathOfModulePath ==
  /\ (cpc # "create" /\ module_src.exists /\ "error" \notin DOMAIN module_info)
     => /\ module_info.import_path = GetImportPath(ModulePath)
        /\ module_info.import_path = <<"c", "a", "l", "c">>
  /\ (cpc \in {"generated", "written"})
     => test_content.import_path = GetImportPath(ModulePath)


\* C23: when two runs have saved to the same path and neither died, the
\* file holds the whole text of the report of the run that wrote last, never
\* a mixture of the two.
C23_LastWriterWins ==
  (\A w \in DOMAIN writers : writers[w].pc = "closed")
  => \A w \in DOMAIN writers :
       disk.writer = w => disk.content = Dumps(writers[w].report)


\* The files of the project whose name matches a test-file pattern and
\* whose path has no excluded directory name among its components.
ExpectedTestFiles ==
  {f \in DOMAIN fs :
     /\ Len(f) > Len(ProjectRoot)
     /\ SubSeq(f, 1, Len(ProjectRoot)) = ProjectRoot
     /\ \E k \in 1..Len(config.test_file_patterns) :
          LET pat == config.test_file_patterns[k]
              name == f[Len(f)]
          IN  /\ Len(name) >= Len(pat.prefix) + Len(pat.suffix)
              /\ SubSeq(name, 1, Len(pat.prefix)) = pat.prefix
              /\ SubSeq(name, Len(name) - Len(pat.suffix) + 1, Len(name)) = pat.suffix
     /\ \A j \in 1..Len(f) : \A k \in 1..Len(config.exclude_dirs) :
          f[j] # config.exclude_dirs[k]}

IsPrefix(a, b) == Len(a) <= Len(b) /\ SubSeq(b, 1, Len(a)) = a

\* C26: issues are only ever appended.  Within a call of analyze_test_file
\* every step keeps the issues recorded so far, unchanged and in order, at
\* the front of the list, the except clause included; the list returned is
\* that list; and analyze_project extends the project-wide list by each
\* file's returned issues, in file order, and changes it in no other way.
C26_IssuesAppendOnly ==
  [][/\ (pc # "call") => IsPrefix(issues, issues')
     /\ (pc' = "returned") => result'.issues = issues'
     /\ IsPrefix(all_issues, all_issues')
     /\ (pc = "returned") => all_issues' = all_issues \o result.issues
     /\ (pc # "returned") => all_issues' = all_issues]_vars

\* The second file of a project has returned from the except clause with
\* the error issue behind issues of earlier passes, and the project-wide
\* list already holds issues of the first file.
C26_Witness ==
  /\ pc = "returned"
  /\ idx = 2
  /\ all_issues # <<>>
  /\ Len(result.issues) > 1
  /\ result.issues[Len(result.issues)].issue_type = "analysis_error"
  /\ result.issues[1].issue_type # "analysis_error"


\* The ClassDef nodes of the parsed module, in order.
ClassNodes == SelectSeq(module_src.tree, LAMBDA n : n.node = "ClassDef")

\* A name that begins and ends with two underscores.
IsBracketed(name) ==
  Len(name) > 4 /\ StartsWith(name, <<"_", "_">>) /\ EndsWith(name, <<"_", "_">>)

\* C27: for a module that parses, the extracted model has no error, and
\* each class of it lists its methods in order, each tagged special exactly
\* when its name is bracketed by double underscores, and lists the
\* class-level assignments to public names as its properties.
C27_ValidModuleExtracted ==
  (cpc # "create" /\ module_src.exists /\ module_src.ok)
  => /\ "error" \notin DOMAIN module_info
     /\ Len(module_info.classes) = Len(ClassNodes)
     /\ \A i \in 1..Len(ClassNodes) :
          LET c == module_info.classes[i]
              defs == SelectSeq(ClassNodes[i].body, LAMBDA n : n.node = "FunctionDef")
              assigned == SelectSeq(ClassNodes[i].body,
                                    LAMBDA n : n.node = "Assign" /\ ~StartsWith(n.target, <<"_">>))
          IN  /\ c.name = ClassNodes[i].name
              /\ Len(c.methods) = Len(defs)
              /\ \A k \in 1..Len(defs) :
                   /\ c.methods[k].name = defs[k].name
                   /\ c.methods[k].is_dunder = IsBracketed(defs[k].name)
              /\ Len(c.properties) = Len(assigned)
              /\ \A k \in 1..Len(assigned) : c.properties[k].name = assigned[k].target


\* C28: for a model that analyze_module returned without an error,
\* generate_unit_test_template returns text and raises nothing, also when a
\* public function has a parameter without a type annotation; so
\* create_unit_tests raises nothing either.
C28_GenerationTotal ==
  (module_src.exists /\ cpc \notin {"idle", "create", "analyzed"}
     /\ "error" \notin DOMAIN module_info)
  => /\ cpc # "raised"
     /\ cexc = "none"


\* C29: the list of discovered test files holds each file once, also a
\* file whose name matches more than one pattern, so the report counts as
\* many files analyzed, and holds as many file metrics, as there are
\* distinct test files.
C29_EachFileOnce ==
  /\ (pc # "start")
     => \A j, k \in 1..Len(test_files) : test_files[j] = test_files[k] => j = k
  /\ (pc = "done" /\ test_files # <<>>)
     => /\ report.test_files_analyzed = Cardinality({test_files[k] : k \in 1..Len(test_files)})
        /\ Len(report.file_metrics) = Cardinality({test_files[k] : k \in 1..Len(test_files)})


====
